---------------------------- MODULE Spec2Model ----------------------------
(***************************************************************************)
(* print-daily: the text measurer, the truncation helper, the news fitter,  *)
(* draw_text and generate_pdf of pdf_generator.py; the news curation of    *)
(* claude_summarizer.py and generate_daily.py; the daily verse and the     *)
(* daily readings of bible_verse.py and bible_readings.py; the retrying    *)
(* request and the highlight fetcher of readwise.py (and weather.py); the  *)
(* font registration of pdf_generator.py.                                  *)
(*                                                                         *)
(* Lengths are integers in units of 1/1270 pt, the unit in which both a    *)
(* millimetre (72/25.4 pt = 3600 units) and a line height (size * 1.3 pt   *)
(* = size * 1651 units) are whole numbers.  A text is a sequence of        *)
(* one-character strings.  An optional value (None or x) is the sequence   *)
(* <<>> or <<x>>.                                                          *)
(***************************************************************************)
EXTENDS Integers, Sequences, FiniteSets, TLC

VARIABLES
    mode,            \* which program runs: "fit", "truncate", "measure", "draw", "date",
                     \* "walk", "retry", "highlight", "fonts"
    pc,              \* position in the running function
    storyLists,      \* heap of list objects holding stories: id -> sequence
    strLists,        \* heap of list objects holding strings: id -> sequence
    objs,            \* heap of CuratedNews objects: id -> record of fields
    news,            \* fit_news_to_space: parameter news (an object id)
    available_height,\* fit_news_to_space: parameter available_height
    content_width,   \* fit_news_to_space: parameter content_width
    adjusted,        \* fit_news_to_space: local adjusted (an object id, 0 unset)
    heights,         \* fit_news_to_space: local heights (the last measurement)
    overflow,        \* fit_news_to_space: local overflow_mm, kept in length units
    stories_to_try,  \* fit_news_to_space: local stories_to_try
    idx,             \* fit_news_to_space: index of the for loop in stories_to_try
    ret,             \* fit_news_to_space: the returned object id (0 before return)
    input0,          \* the value of the input bundle when the call started
    log,             \* what the call did so far, in order
    round,           \* 1 for the first call, 2 for a call on a returned bundle
    text,            \* truncate_text / measure_text_height: parameter text
    text2,           \* a second text, for comparing two measurements
    max_length,      \* truncate_text: parameter max_length
    max_width,       \* measure_text_height: parameter max_width (0 for None)
    mfont,           \* measure_text_height: argument font
    msize,           \* measure_text_height: argument size
    result,          \* the value the pure function returned (<<>> before)
    canvas,          \* the lines painted on the page so far, in order
    draw_x,          \* draw_text: parameter x
    draw_y,          \* draw_text: parameter y
    page_y,          \* generate_pdf: local y
    align,           \* draw_text: parameter align
    content,         \* generate_pdf: the DailyContent, its news apart (news)
    stage,           \* generate_pdf: the section it comes to next
    pages,           \* generate_pdf: the number of pages closed (showPage)
    today,           \* the date given to get_daily_verse, get_todays_readings
    raw_news,        \* main: the articles fetched
    no_ai,           \* main: args.no_ai
    response,        \* curate_and_summarize: the JSON the model answered (or none)
    max_retries,     \* _retry_request: parameter max_retries
    delay,           \* _retry_request: parameter delay
    attempt,         \* _retry_request: the loop variable attempt
    trace,           \* the calls made and the sleeps taken so far, in order
    outcome,         \* how the function ended: <<>> while it runs
    start_page,      \* get_random_highlight: local start_page
    cursor,          \* _skip_pages: local cursor (<<>> for None)
    next_cursor,     \* get_random_highlight: local next_cursor (<<>> for None)
    pages_fetched,   \* get_random_highlight: local pages_fetched
    all_highlights,  \* get_random_highlight: local all_highlights
    registered_count,\* register_fonts: local registered_count
    skip_i           \* _skip_pages: the turns of its loop done

vars == <<mode, pc, storyLists, strLists, objs, news, available_height,
          content_width, adjusted, heights, overflow, stories_to_try, idx,
          ret, input0, log, round, text, text2, max_length, max_width, mfont,
          msize, result, canvas, draw_x, draw_y, page_y, align, content, stage,
          pages, today, raw_news, no_ai, response, max_retries, delay, attempt,
          trace, outcome, start_page, cursor, next_cursor, pages_fetched,
          all_highlights, registered_count, skip_i>>

fitVars == <<storyLists, strLists, objs, news, available_height,
             content_width, adjusted, heights, overflow, stories_to_try, idx,
             ret, input0, log, round>>

textVars == <<text, text2, max_length, max_width, mfont, msize, result>>

netVars == <<max_retries, delay, attempt, trace, outcome, start_page, cursor,
            next_cursor, pages_fetched, all_highlights, registered_count, skip_i>>

pageVars == <<canvas, draw_x, draw_y, page_y, align, content, stage, pages, today,
             raw_news, no_ai, response, max_retries, delay, attempt, trace,
             outcome, start_page, cursor, next_cursor, pages_fetched,
             all_highlights, registered_count, skip_i>>

(***************************************************************************)
(* Units and fonts                                                         *)
(***************************************************************************)
mm == 3600
cm == 36000
LineUnit == 1651
AdvanceUnit == 127

Min(a, b) == IF a <= b THEN a ELSE b
Max(a, b) == IF a >= b THEN a ELSE b

FONTS == [bold |-> "Montserrat-Bold", semibold |-> "Montserrat-SemiBold",
          medium |-> "Montserrat-Medium", light |-> "Montserrat-Light"]

\* Advance width of one glyph in tenths of an em.  The font files are not
\* part of the sources; what matters to the layout code is only that a
\* width is the sum of per-glyph advances scaled by the size, that a space
\* and a full stop are narrower than a letter, and that the heavier
\* weights run wider.
GlyphAdvance(c, font) ==
    IF c \in {" ", "."} THEN 3
    ELSE IF font \in {FONTS.bold, FONTS.semibold} THEN 7 ELSE 6

\* The glyphs of t that are c
IsSpace(c) == c = " "
IsStop(c) == c = "."

\* stringWidth: the sum of the advances of the glyphs of t, scaled by size.
\* The glyphs are counted by kind: spaces, full stops, and the letters,
\* which all advance alike.
stringWidth(t, font, size) ==
    LET spaces == Len(SelectSeq(t, IsSpace))
        stops == Len(SelectSeq(t, IsStop))
    IN (spaces * GlyphAdvance(" ", font) + stops * GlyphAdvance(".", font)
        + (Len(t) - spaces - stops) * GlyphAdvance("a", font)) * size * AdvanceUnit

(***************************************************************************)
(* Python string helpers                                                   *)
(***************************************************************************)
\* s[:k]
SliceTo(s, k) ==
    IF k >= 0 THEN SubSeq(s, 1, Min(k, Len(s)))
    ELSE SubSeq(s, 1, Max(0, Len(s) + k))

\* s.rfind(' '): the 0-based index of the last space, -1 when there is none
RFindSpace(s) ==
    LET at == {i \in 1..Len(s) : s[i] = " "}
    IN IF at = {} THEN -1 ELSE (CHOOSE i \in at : \A j \in at : j <= i) - 1

Ellipsis == <<".", ".", ".">>

IsPrefix(p, s) == Len(p) <= Len(s) /\ SubSeq(s, 1, Len(p)) = p

\* Position i of t starts a word; position e of t ends one
IsWordStart(t, i) == t[i] # " " /\ (i = 1 \/ t[i - 1] = " ")

IsWordEnd(t, e) == t[e] # " " /\ (e = Len(t) \/ t[e + 1] = " ")

\* The last index of the word that starts at i
WordEnd(t, i) ==
    CHOOSE e \in i..Len(t) : IsWordEnd(t, e) /\ \A k \in i..e : t[k] # " "

\* The start of the first word after position p, Len(t) + 1 when there is none
NextStart(t, p) ==
    IF \E s \in (p + 1)..Len(t) : IsWordStart(t, s)
    THEN CHOOSE s \in (p + 1)..Len(t) :
            IsWordStart(t, s) /\ \A x \in (p + 1)..(s - 1) : ~IsWordStart(t, x)
    ELSE Len(t) + 1

\* ' '.join(t[a..b].split()), for a word starting at a and one ending at b:
\* the stretch with every run of spaces reduced to one space
IsKept(p) == ~p[2]

JoinedStretch(t, a, b) ==
    LET u == SubSeq(t, a, b)
        marked == [p \in 1..Len(u) |-> <<u[p], p > 1 /\ u[p] = " " /\ u[p - 1] = " ">>]
        kept == SelectSeq(marked, IsKept)
    IN [p \in 1..Len(kept) |-> kept[p][1]]

(***************************************************************************)
(* reportlab.lib.utils.simpleSplit: greedy word wrap.  The words of the    *)
(* text are put on the current line while the line, with one space before  *)
(* each word but the first, is at most maxWidth wide; a word that does not *)
(* fit starts a new line; the first word of a line is always accepted, so  *)
(* a word wider than maxWidth has a line of its own.  (The texts here hold *)
(* no line break, on which the library would split first.)                 *)
(*                                                                         *)
(* The library's loop adds words one by one; here a line is found at once  *)
(* as the longest run of words whose joined width fits, which is the same  *)
(* line because a joined width grows with every word added.                *)
(***************************************************************************)
\* The width of the words from position i to position e of t, joined: the
\* width of the stretch less that of the spaces the join leaves out
JoinedWidth(t, i, e, font, size) ==
    LET u == SubSeq(t, i, e)
        gaps == Cardinality({p \in 1..(Len(u) - 1) : u[p] = " " /\ u[p + 1] # " "})
    IN stringWidth(u, font, size)
       - (Len(SelectSeq(u, IsSpace)) - gaps) * stringWidth(<<" ">>, font, size)

\* The end of the last word of the line whose first word starts at i
LineEnd(t, i, font, size, mW) ==
    CHOOSE e \in i..Len(t) :
        /\ IsWordEnd(t, e)
        /\ (e = WordEnd(t, i) \/ JoinedWidth(t, i, e, font, size) <= mW)
        /\ LET s == NextStart(t, e)
           IN s > Len(t) \/ JoinedWidth(t, i, WordEnd(t, s), font, size) > mW

RECURSIVE LinesFrom(_, _, _, _, _)
LinesFrom(t, i, font, size, mW) ==
    IF i > Len(t) THEN <<>>
    ELSE LET e == LineEnd(t, i, font, size, mW)
         IN << JoinedStretch(t, i, e) >> \o LinesFrom(t, NextStart(t, e), font, size, mW)

simpleSplit(t, font, size, maxWidth) ==
    LinesFrom(t, NextStart(t, 0), font, size, maxWidth)

\* A variant that never looks for a space.
truncate_text_hard_cut(t, maxlen) ==
    IF Len(t) <= maxlen THEN t
    ELSE SliceTo(t, maxlen - 3) \o Ellipsis

(***************************************************************************)
(* truncate_text                                                           *)
(***************************************************************************)
\* A variant that forgets to leave room for the ellipsis.
truncate_text_no_room(t, maxlen) ==
    IF Len(t) <= maxlen THEN t
    ELSE LET truncated == SliceTo(t, maxlen)
             last_space == RFindSpace(truncated)
         IN (IF last_space > maxlen \div 2
             THEN SliceTo(truncated, last_space) ELSE truncated) \o Ellipsis

truncate_text(t, maxlen) ==
    IF Len(t) <= maxlen THEN t
    ELSE LET truncated == SliceTo(t, maxlen - 3)
             last_space == RFindSpace(truncated)
         IN (IF last_space > maxlen \div 2
             THEN SliceTo(truncated, last_space) ELSE truncated) \o Ellipsis

(***************************************************************************)
(* measure_text_height (max_width 0 stands for None: both are falsy)       *)
(***************************************************************************)
\* A variant that counts the gaps between the wrapped lines, not the lines.
measure_text_height_gaps(t, font, size, maxw) ==
    IF t = <<>> THEN 0
    ELSE LET line_height == size * LineUnit
         IN IF maxw # 0 /\ stringWidth(t, font, size) > maxw
            THEN line_height * (Len(simpleSplit(t, font, size, maxw)) - 1)
            ELSE line_height

measure_text_height(t, font, size, maxw) ==
    IF t = <<>> THEN 0
    ELSE LET line_height == size * LineUnit
         IN IF maxw # 0 /\ stringWidth(t, font, size) > maxw
            THEN line_height * Len(simpleSplit(t, font, size, maxw))
            ELSE line_height

(***************************************************************************)
(* draw_text.  The canvas is the sequence of the lines painted, each with  *)
(* the place it was painted at; x is kept doubled (x2), so that the half   *)
(* of a text width of align = "center" stays a whole number.               *)
(***************************************************************************)
Painted(x2, py, t, font, size) ==
    [x2 |-> x2, y |-> py, text |-> t, font |-> font, size |-> size]

\* A variant that returns y as the loop left it, one line below the last.
draw_text_below_last(cv, px, py, t, font, size, al, maxw) ==
    IF maxw # 0 /\ stringWidth(t, font, size) > maxw
    THEN LET line_height == size * LineUnit
             lines == simpleSplit(t, font, size, maxw)
         IN [canvas |-> cv \o [i \in 1..Len(lines) |->
                                 Painted(2 * px, py - (i - 1) * line_height,
                                         lines[i], font, size)],
             ret |-> py - Len(lines) * line_height]
    ELSE [canvas |-> Append(cv, Painted(2 * px, py, t, font, size)), ret |-> py]

\* A variant that never wraps.
draw_text_unwrapped(cv, px, py, t, font, size, al, maxw) ==
    [canvas |-> Append(cv, Painted(2 * px, py, t, font, size)), ret |-> py]

\* Lines 91-107: the canvas after the call, and the value returned
draw_text(cv, px, py, t, font, size, al, maxw) ==
    IF maxw # 0 /\ stringWidth(t, font, size) > maxw
    THEN LET line_height == size * LineUnit
             lines == simpleSplit(t, font, size, maxw)
         IN [canvas |-> cv \o [i \in 1..Len(lines) |->
                                 Painted(2 * px, py - (i - 1) * line_height,
                                         lines[i], font, size)],
             ret |-> (py - Len(lines) * line_height) + line_height]
    ELSE LET x2 == IF al = "right" THEN 2 * px - 2 * stringWidth(t, font, size)
                   ELSE IF al = "center" THEN 2 * px - stringWidth(t, font, size)
                   ELSE 2 * px
         IN [canvas |-> Append(cv, Painted(x2, py, t, font, size)), ret |-> py]

(***************************************************************************)
(* CuratedStory, CuratedNews and the heap                                  *)
(*                                                                         *)
(* A CuratedStory is the record [headline, summary]; the code never        *)
(* assigns to a story's field, it builds a new story, so stories are kept  *)
(* by value.  A CuratedNews object and the two lists it points to are      *)
(* kept by reference: objs[id] holds the ids of its top_stories and        *)
(* headlines list objects, and its third_story (None or a story).          *)
(***************************************************************************)
CuratedStory(h, s) == [headline |-> h, summary |-> s]

\* The content of the CuratedNews object o, lists dereferenced
NewsValueIn(o, os, sl, hl) ==
    [top_stories |-> sl[os[o].top_stories],
     third_story |-> os[o].third_story,
     headlines   |-> hl[os[o].headlines]]

NewsValue(o) == NewsValueIn(o, objs, storyLists, strLists)

RECURSIVE SumSeq(_)
SumSeq(q) == IF q = <<>> THEN 0 ELSE Head(q) + SumSeq(Tail(q))

(***************************************************************************)
(* _measure_news_height, on the content n of a CuratedNews                 *)
(***************************************************************************)
_measure_news_height(n, cw) ==
    LET col_width == (cw - 8 * mm) \div 2
        tops == [i \in 1..Len(n.top_stories) |->
                   measure_text_height(n.top_stories[i].headline, FONTS.semibold, 11, cw)
                   + 5 * mm
                   + measure_text_height(n.top_stories[i].summary, FONTS.medium, 8, cw)
                   + 8 * mm]
        third == IF n.third_story # <<>>
                 THEN measure_text_height(n.third_story[1].headline, FONTS.semibold, 10, col_width)
                      + 4 * mm
                      + measure_text_height(n.third_story[1].summary, FONTS.medium, 8, col_width)
                 ELSE 0
        heads == IF n.headlines # <<>>
                 THEN 5 * mm + SumSeq([i \in 1..Len(n.headlines) |->
                        measure_text_height(n.headlines[i], FONTS.medium, 8, col_width - 3 * mm)
                        + 4 * mm])
                 ELSE 0
    IN [top_stories |-> tops, third_story |-> third, headlines |-> heads,
        header |-> 8 * mm,
        total |-> 8 * mm + SumSeq(tops) + Max(third, heads)]

NoHeights == [top_stories |-> <<>>, third_story |-> 0, headlines |-> 0,
              header |-> 0, total |-> 0]

(***************************************************************************)
(* The pieces of fit_news_to_space                                         *)
(***************************************************************************)
\* heights["total"] <= available_height
FitsStrictly(total, avail) == total < avail

Fits(total, avail) == total <= avail

\* headlines = list(news.headlines): a new list object with the same items.
\* The result is the heap and the id of the list the local names.
AliasHeadlines(hl, src) == [heap |-> hl, id |-> src]

CopyHeadlines(hl, src) == [heap |-> Append(hl, hl[src]), id |-> Len(hl) + 1]

\* top_stories = [CuratedStory(headline=s.headline, summary=s.summary) for s in ...]
CopyStories(sl, src) ==
    [heap |-> Append(sl, [i \in 1..Len(sl[src]) |->
                            CuratedStory(sl[src][i].headline, sl[src][i].summary)]),
     id |-> Len(sl) + 1]

\* stories_to_try, from the working bundle n and the overflow (in length units)
StoriesToTryFirstTopFirst(n, over) ==
    (IF n.top_stories # <<>> THEN << <<"top_0", 4>> >> ELSE <<>>)
    \o (IF Len(n.top_stories) > 1 THEN << <<"top_1", 3>> >> ELSE <<>>)
    \o (IF n.third_story # <<>>
        THEN (IF over > 20 * mm THEN << <<"third", 1>> >> ELSE << <<"third", 2>> >>)
        ELSE <<>>)

\* A variant that comes back to the first top story.
StoriesToTryFirstTopAgain(n, over) ==
    (IF n.third_story # <<>>
     THEN (IF over > 20 * mm THEN << <<"third", 1>> >> ELSE << <<"third", 2>> >>)
     ELSE <<>>)
    \o (IF n.top_stories # <<>> THEN << <<"top_0", 3>> >> ELSE <<>>)
    \o (IF n.top_stories # <<>> THEN << <<"top_0", 4>> >> ELSE <<>>)

StoriesToTry(n, over) ==
    (IF n.third_story # <<>>
     THEN (IF over > 20 * mm THEN << <<"third", 1>> >> ELSE << <<"third", 2>> >>)
     ELSE <<>>)
    \o (IF Len(n.top_stories) > 1 THEN << <<"top_1", 3>> >> ELSE <<>>)
    \o (IF n.top_stories # <<>> THEN << <<"top_0", 4>> >> ELSE <<>>)

\* if shorter: story = CuratedStory(headline=story.headline, summary=shorter)
\* shorter is what shorten_summary returned: None (<<>>) or a string (<<s>>)
ShortenedBlanking(story, shorter) ==
    IF shorter # <<>> THEN CuratedStory(story.headline, shorter[1])
    ELSE CuratedStory(story.headline, <<>>)

Shortened(story, shorter) ==
    IF shorter # <<>> /\ shorter[1] # <<>>
    THEN CuratedStory(story.headline, shorter[1])
    ELSE story

\* while adjusted.headlines and heights["total"] > available_height
DropCondKeepOne(hs, total, avail) == Len(hs) > 1 /\ total > avail

DropCond(hs, total, avail) == hs # <<>> /\ total > avail

\* adjusted.headlines.pop()
PopFront(hs) == Tail(hs)

Pop(hs) == SubSeq(hs, 1, Len(hs) - 1)

\* The fixed character budget of the fallback
TruncateBudget == 200

(***************************************************************************)
(* Inputs                                                                  *)
(***************************************************************************)
\* n words of w letters c each, single spaces between them
Words(n, w, c) == [i \in 1..(n * (w + 1) - 1) |-> IF i % (w + 1) = 0 THEN " " ELSE c]

\* shorten_summary(headline, summary, target_sentences): the external
\* rewriting capability, a black box that returns nothing or a string.  The
\* string may be empty, shorter or longer than the summary it was given.
SentenceWords == 3
WordLetters == 5
LongWords == 45

shorten_summary(headline, summary, target_sentences) ==
    { <<>>,
      << <<>> >>,
      << Words(SentenceWords * target_sentences, WordLetters, "s") >>,
      << Words(LongWords, WordLetters, "l") >> }

TopSummaryWords == 16
ThirdSummaryWords == 34
HeadlineWords == 3

StoryA == CuratedStory(Words(HeadlineWords, WordLetters, "a"), Words(TopSummaryWords, WordLetters, "a"))
StoryB == CuratedStory(Words(HeadlineWords, WordLetters, "b"), Words(TopSummaryWords, WordLetters, "b"))
StoryC == CuratedStory(Words(HeadlineWords, WordLetters, "c"), Words(ThirdSummaryWords, WordLetters, "c"))
StoryD == CuratedStory(Words(HeadlineWords, WordLetters, "d"), Words(SentenceWords, WordLetters, "d"))
H1 == Words(2, WordLetters, "h")
H2 == Words(6, WordLetters, "i")
H3 == Words(2, WordLetters, "j")
H4 == Words(6, WordLetters, "k")

Bundle(tops, third, hs) == [top_stories |-> tops, third_story |-> third, headlines |-> hs]

Bundles ==
    { Bundle(<<StoryA, StoryB>>, <<StoryC>>, <<H1, H2, H3>>),
      Bundle(<<StoryA>>, <<StoryD>>, <<H1, H2, H3, H4>>),
      Bundle(<<>>, <<StoryC>>, <<H1, H2>>),
      Bundle(<<StoryA, StoryB>>, <<>>, <<H1, H2>>),
      Bundle(<<StoryA, StoryB, StoryD>>, <<StoryC>>, <<H1>>),
      Bundle(<<StoryB>>, <<StoryC>>, <<>>),
      Bundle(<<>>, <<>>, <<H1, H2, H3>>),
      Bundle(<<>>, <<>>, <<>>) }

\* content_width: a narrow page, on which a summary of a few words wraps
NarrowWidthMm == 64

ContentWidths == {NarrowWidthMm * mm}

\* available_height, as what the bundle measures less a shortfall, and the
\* degenerate budgets 0 and below
Shortfalls == {0 - 10 * mm, 0, 1, 6 * mm, 20 * mm, 20 * mm + 1, 35 * mm, 50 * mm, 90 * mm}

AvailableHeights(b, cw) ==
    {_measure_news_height(b, cw).total - d : d \in Shortfalls} \cup {0, 0 - 5 * mm}

(***************************************************************************)
(* fit_news_to_space as a process                                          *)
(***************************************************************************)
Entry(op, story, target, got) ==
    [op |-> op, story |-> story, target |-> target, got |-> got]

\* No article fetched, no answer
\* No request under way, no font registered
NetIdle ==
    /\ max_retries = 0 /\ delay = 0 /\ attempt = 0 /\ trace = <<>>
    /\ outcome = <<>> /\ start_page = 0 /\ cursor = <<>> /\ next_cursor = <<>>
    /\ pages_fetched = 0 /\ all_highlights = <<>> /\ registered_count = 0 /\ skip_i = 0

CurateIdle == raw_news = <<>> /\ no_ai = FALSE /\ response = <<>> /\ NetIdle

\* DailyContent with nothing in it but the news
NoContent ==
    [date |-> [year |-> 1, month |-> 1, day |-> 1], weather |-> <<>>,
     highlight |-> <<>>, verse |-> <<>>, readings |-> <<>>]

PageIdle ==
    /\ canvas = <<>> /\ draw_x = 0 /\ draw_y = 0 /\ page_y = 0 /\ align = "left"
    /\ content = NoContent /\ stage = "idle" /\ pages = 0 /\ today = <<>> /\ CurateIdle

TextIdle ==
    /\ text = <<>> /\ text2 = <<>> /\ max_length = 0 /\ max_width = 0
    /\ mfont = FONTS.medium /\ msize = 10
    /\ result = <<>>

InitFit ==
    /\ mode = "fit"
    /\ pc = "call"
    /\ \E b \in Bundles : \E cw \in ContentWidths :
         /\ storyLists = <<b.top_stories>>
         /\ strLists = <<b.headlines>>
         /\ objs = << [top_stories |-> 1, third_story |-> b.third_story, headlines |-> 1] >>
         /\ input0 = b
         /\ content_width = cw
         /\ available_height \in AvailableHeights(b, cw)
    /\ news = 1
    /\ adjusted = 0
    /\ heights = NoHeights
    /\ overflow = 0
    /\ stories_to_try = <<>>
    /\ idx = 0
    /\ ret = 0
    /\ log = <<>>
    /\ round = 1
    /\ TextIdle
    /\ PageIdle

\* Lines 206-265: the early return, the copies, the first measurement, the
\* fast path and the plan of shortenings
Call ==
    /\ mode = "fit" /\ pc = "call"
    /\ IF storyLists[objs[news].top_stories] = <<>> /\ objs[news].third_story = <<>>
       THEN /\ ret' = news
            /\ pc' = "done"
            /\ UNCHANGED <<storyLists, strLists, objs, adjusted, heights, overflow,
                           stories_to_try, idx>>
       ELSE LET tops == CopyStories(storyLists, objs[news].top_stories)
                third == IF objs[news].third_story # <<>>
                         THEN << CuratedStory(objs[news].third_story[1].headline,
                                              objs[news].third_story[1].summary) >>
                         ELSE <<>>
                heads == CopyHeadlines(strLists, objs[news].headlines)
                os == Append(objs, [top_stories |-> tops.id, third_story |-> third,
                                    headlines |-> heads.id])
                a == Len(os)
                n == NewsValueIn(a, os, tops.heap, heads.heap)
                h == _measure_news_height(n, content_width)
            IN /\ storyLists' = tops.heap
               /\ strLists' = heads.heap
               /\ objs' = os
               /\ adjusted' = a
               /\ heights' = h
               /\ IF Fits(h.total, available_height)
                  THEN /\ ret' = a
                       /\ pc' = "done"
                       /\ UNCHANGED <<overflow, stories_to_try, idx>>
                  ELSE /\ overflow' = h.total - available_height
                       /\ stories_to_try' = StoriesToTry(n, h.total - available_height)
                       /\ idx' = 1
                       /\ ret' = 0
                       /\ pc' = "shorten"
    /\ UNCHANGED <<mode, news, available_height, content_width, input0, log, round>>
    /\ UNCHANGED textVars
    /\ UNCHANGED pageVars

\* What shorten_summary's return value is to "if shorter:"
Got(shorter) ==
    IF shorter = <<>> THEN "none" ELSE IF shorter[1] = <<>> THEN "empty" ELSE "text"

\* A variant that measures again and goes on to the end of the list whether
\* the bundle fits or not.
AfterAttemptToTheEnd(os, sl) ==
    LET h == _measure_news_height(NewsValueIn(adjusted, os, sl, strLists), content_width)
    IN /\ heights' = h
       /\ ret' = 0
       /\ idx' = idx + 1
       /\ pc' = IF idx < Len(stories_to_try) THEN "shorten" ELSE "drop"

\* Lines 305-312 and the loop's end: measure again, return when the bundle
\* fits, else go on with the next story or, after the last, with the drops
AfterAttempt(os, sl) ==
    LET h == _measure_news_height(NewsValueIn(adjusted, os, sl, strLists), content_width)
    IN /\ heights' = h
       /\ IF Fits(h.total, available_height)
          THEN /\ ret' = adjusted
               /\ pc' = "done"
               /\ idx' = idx
          ELSE /\ ret' = 0
               /\ idx' = idx + 1
               /\ pc' = IF idx < Len(stories_to_try) THEN "shorten" ELSE "drop"

\* Lines 267-312: one iteration of the loop over stories_to_try
Shorten ==
    /\ mode = "fit" /\ pc = "shorten"
    /\ LET story_id == stories_to_try[idx][1]
           target_sentences == stories_to_try[idx][2]
           a == objs[adjusted]
           tops == storyLists[a.top_stories]
       IN IF story_id = "third" /\ a.third_story # <<>>
          THEN \E shorter \in shorten_summary(a.third_story[1].headline,
                                              a.third_story[1].summary, target_sentences) :
                 LET os == [objs EXCEPT ![adjusted].third_story =
                                          << Shortened(a.third_story[1], shorter) >>]
                 IN /\ objs' = os
                    /\ storyLists' = storyLists
                    /\ log' = Append(log, Entry("shorten", story_id, target_sentences,
                                                Got(shorter)))
                    /\ AfterAttempt(os, storyLists)
          ELSE IF story_id = "top_1" /\ Len(tops) > 1
          THEN \E shorter \in shorten_summary(tops[2].headline, tops[2].summary,
                                              target_sentences) :
                 LET sl == [storyLists EXCEPT ![a.top_stories][2] =
                                                Shortened(tops[2], shorter)]
                 IN /\ storyLists' = sl
                    /\ objs' = objs
                    /\ log' = Append(log, Entry("shorten", story_id, target_sentences,
                                                Got(shorter)))
                    /\ AfterAttempt(objs, sl)
          ELSE IF story_id = "top_0" /\ tops # <<>>
          THEN \E shorter \in shorten_summary(tops[1].headline, tops[1].summary,
                                              target_sentences) :
                 LET sl == [storyLists EXCEPT ![a.top_stories][1] =
                                                Shortened(tops[1], shorter)]
                 IN /\ storyLists' = sl
                    /\ objs' = objs
                    /\ log' = Append(log, Entry("shorten", story_id, target_sentences,
                                                Got(shorter)))
                    /\ AfterAttempt(objs, sl)
          ELSE /\ UNCHANGED <<objs, storyLists, log>>
               /\ AfterAttempt(objs, storyLists)
    /\ UNCHANGED <<mode, strLists, news, available_height, content_width, adjusted,
                   overflow, stories_to_try, input0, round>>
    /\ UNCHANGED textVars
    /\ UNCHANGED pageVars

\* Lines 315-318: one iteration of the while loop
Drop ==
    /\ mode = "fit" /\ pc = "drop"
    /\ DropCond(strLists[objs[adjusted].headlines], heights.total, available_height)
    /\ LET hl == [strLists EXCEPT ![objs[adjusted].headlines] = Pop(@)]
       IN /\ strLists' = hl
          /\ heights' = _measure_news_height(
                            NewsValueIn(adjusted, objs, storyLists, hl), content_width)
    /\ log' = Append(log, Entry("drop", "headline", 0, "none"))
    /\ UNCHANGED <<mode, pc, storyLists, objs, news, available_height, content_width,
                   adjusted, overflow, stories_to_try, idx, ret, input0, round>>
    /\ UNCHANGED textVars
    /\ UNCHANGED pageVars

\* Lines 320-322: the while loop is over and the bundle fits
ReturnAfterDrop ==
    /\ mode = "fit" /\ pc = "drop"
    /\ ~DropCond(strLists[objs[adjusted].headlines], heights.total, available_height)
    /\ Fits(heights.total, available_height)
    /\ ret' = adjusted
    /\ pc' = "done"
    /\ UNCHANGED <<mode, storyLists, strLists, objs, news, available_height,
                   content_width, adjusted, heights, overflow, stories_to_try, idx,
                   input0, log, round>>
    /\ UNCHANGED textVars
    /\ UNCHANGED pageVars

\* Lines 324-339: the while loop is over and the bundle still overflows:
\* truncate the third story's summary, if there is a third story, and return
Fallback ==
    /\ mode = "fit" /\ pc = "drop"
    /\ ~DropCond(strLists[objs[adjusted].headlines], heights.total, available_height)
    /\ ~Fits(heights.total, available_height)
    /\ IF objs[adjusted].third_story # <<>> /\ heights.total > available_height
       THEN LET t == objs[adjusted].third_story[1]
                os == [objs EXCEPT ![adjusted].third_story =
                         << CuratedStory(t.headline,
                                         truncate_text(t.summary, TruncateBudget)) >>]
            IN /\ objs' = os
               /\ heights' = _measure_news_height(
                                 NewsValueIn(adjusted, os, storyLists, strLists),
                                 content_width)
               /\ log' = Append(log, Entry("truncate", "third", 0, "none"))
       ELSE UNCHANGED <<objs, heights, log>>
    /\ ret' = adjusted
    /\ pc' = "done"
    /\ UNCHANGED <<mode, storyLists, strLists, news, available_height, content_width,
                   adjusted, overflow, stories_to_try, idx, input0, round>>
    /\ UNCHANGED textVars
    /\ UNCHANGED pageVars

\* The caller hands a returned bundle that fits its budget to
\* fit_news_to_space once more, with the same budget
Refit ==
    /\ mode = "fit" /\ pc = "done" /\ round = 1
    /\ _measure_news_height(NewsValue(ret), content_width).total <= available_height
    /\ news' = ret
    /\ input0' = NewsValue(ret)
    /\ round' = 2
    /\ pc' = "call"
    /\ adjusted' = 0
    /\ ret' = 0
    /\ heights' = NoHeights
    /\ overflow' = 0
    /\ stories_to_try' = <<>>
    /\ idx' = 0
    /\ log' = <<>>
    /\ UNCHANGED <<mode, storyLists, strLists, objs, available_height, content_width>>
    /\ UNCHANGED textVars
    /\ UNCHANGED pageVars

NextFit == Call \/ Shorten \/ Drop \/ ReturnAfterDrop \/ Fallback \/ Refit

(***************************************************************************)
(* truncate_text and measure_text_height on their own                      *)
(***************************************************************************)
FitIdle ==
    /\ storyLists = <<>> /\ strLists = <<>> /\ objs = <<>>
    /\ news = 0 /\ available_height = 0 /\ content_width = 0
    /\ adjusted = 0 /\ heights = NoHeights /\ overflow = 0
    /\ stories_to_try = <<>> /\ idx = 0 /\ ret = 0
    /\ input0 = Bundle(<<>>, <<>>, <<>>) /\ log = <<>> /\ round = 0

TextAlphabet == {"a", " "}
MaxTextLen == 10
MinMaxLength == 0 - 2

RECURSIVE TextsUpTo(_, _)
TextsUpTo(n, alphabet) ==
    IF n = 0 THEN {<<>>}
    ELSE LET shorter == TextsUpTo(n - 1, alphabet)
         IN shorter \cup {Append(t, c) : t \in shorter, c \in alphabet}

\* The text with its letters told apart by their place: a, b, c, a, ...
Lettered(t) ==
    [i \in 1..Len(t) |->
        IF t[i] = " " THEN " "
        ELSE IF i % 3 = 1 THEN "a" ELSE IF i % 3 = 2 THEN "b" ELSE "c"]

InitTruncate ==
    /\ mode = "truncate"
    /\ pc = "call"
    /\ text \in {Lettered(t) : t \in TextsUpTo(MaxTextLen, TextAlphabet)}
    /\ max_length \in MinMaxLength..(MaxTextLen + 1)
    /\ text2 = <<>> /\ max_width = 0 /\ mfont = FONTS.medium /\ msize = 10
    /\ result = <<>>
    /\ FitIdle
    /\ PageIdle

\* result = truncate_text(text, max_length)
Truncate ==
    /\ mode = "truncate" /\ pc = "call"
    /\ result' = << truncate_text(text, max_length) >>
    /\ pc' = "done"
    /\ UNCHANGED <<mode, text, text2, max_length, max_width, mfont, msize>>
    /\ UNCHANGED fitVars
    /\ UNCHANGED pageVars

MeasureAlphabet == {"a", " "}
MaxMeasureLen == 5

\* A font and a size the page uses, and widths of a few letters of it
FontSizes == { <<FONTS.medium, 8>>, <<FONTS.semibold, 11>> }
HalfLetters == {0, 1, 5, 8}

InitMeasure ==
    /\ mode = "measure"
    /\ pc = "call"
    /\ text \in TextsUpTo(MaxMeasureLen, MeasureAlphabet)
    /\ text2 \in TextsUpTo(MaxMeasureLen, MeasureAlphabet)
    /\ \E fs \in FontSizes : \E k \in HalfLetters :
         /\ mfont = fs[1]
         /\ msize = fs[2]
         /\ max_width = (k * stringWidth(<<"a">>, fs[1], fs[2])) \div 2
    /\ max_length = 0
    /\ result = <<>>
    /\ FitIdle
    /\ PageIdle

\* result = the heights of text and of text2 under font, size and max_width
Measure ==
    /\ mode = "measure" /\ pc = "call"
    /\ result' = << measure_text_height(text, mfont, msize, max_width),
                    measure_text_height(text2, mfont, msize, max_width) >>
    /\ pc' = "done"
    /\ UNCHANGED <<mode, text, text2, max_length, max_width, mfont, msize>>
    /\ UNCHANGED fitVars
    /\ UNCHANGED pageVars

Init == InitFit

Next == NextFit

Spec == Init /\ [][Next]_vars

\* fit_news_to_space, and truncate_text on texts and limits of its own
InitText == InitFit \/ InitTruncate

NextText == NextFit \/ Truncate

SpecText == InitText /\ [][NextText]_vars

\* measure_text_height on pairs of texts
NextMeasure == Measure

SpecMeasure == InitMeasure /\ [][NextMeasure]_vars

(***************************************************************************)
(* Dates.  A date is the record [year, month, day]; weekday() counts from  *)
(* Monday = 0, tm_yday from 1 January = 1, as datetime.date does.          *)
(***************************************************************************)
Date(yr, mo, dy) == [year |-> yr, month |-> mo, day |-> dy]

IsLeap(yr) == (yr % 4 = 0 /\ yr % 100 # 0) \/ yr % 400 = 0

DaysInMonth(yr, mo) ==
    IF mo = 2 THEN (IF IsLeap(yr) THEN 29 ELSE 28)
    ELSE IF mo \in {4, 6, 9, 11} THEN 30 ELSE 31

RECURSIVE DaysBeforeMonth(_, _)
DaysBeforeMonth(yr, mo) ==
    IF mo = 1 THEN 0 ELSE DaysBeforeMonth(yr, mo - 1) + DaysInMonth(yr, mo - 1)

\* d.timetuple().tm_yday
tm_yday(d) == DaysBeforeMonth(d.year, d.month) + d.day

\* d.toordinal(): 1 for 1 January of year 1
toordinal(d) ==
    LET before == d.year - 1
    IN before * 365 + before \div 4 - before \div 100 + before \div 400 + tm_yday(d)

\* d.weekday()
weekday(d) == (toordinal(d) + 6) % 7

\* The date with tm_yday n in year yr
DateOfYday(yr, n) ==
    LET mo == CHOOSE m \in 1..12 :
                 DaysBeforeMonth(yr, m) < n /\ n <= DaysBeforeMonth(yr, m) + DaysInMonth(yr, m)
    IN Date(yr, mo, n - DaysBeforeMonth(yr, mo))

(***************************************************************************)
(* Formatting: texts are sequences of one-character strings, so the        *)
(* literals of the code are spelled out.  The glyphs outside ASCII are     *)
(* named: "deg" for the degree sign, "dash" for the em dash, "bullet" for  *)
(* the bullet and "middot" for the middle dot.                             *)
(***************************************************************************)
Digit(n) == << (<<"0", "1", "2", "3", "4", "5", "6", "7", "8", "9">>)[n + 1] >>

\* str(n) for an integer n
RECURSIVE IntText(_)
IntText(n) ==
    IF n < 0 THEN <<"-">> \o IntText(0 - n)
    ELSE IF n < 10 THEN Digit(n)
    ELSE IntText(n \div 10) \o Digit(n % 10)

\* strftime("%A").upper(), by weekday()
DayNames ==
    << <<"M", "O", "N", "D", "A", "Y">>,
       <<"T", "U", "E", "S", "D", "A", "Y">>,
       <<"W", "E", "D", "N", "E", "S", "D", "A", "Y">>,
       <<"T", "H", "U", "R", "S", "D", "A", "Y">>,
       <<"F", "R", "I", "D", "A", "Y">>,
       <<"S", "A", "T", "U", "R", "D", "A", "Y">>,
       <<"S", "U", "N", "D", "A", "Y">> >>

\* strftime("%B"), by month
MonthNames ==
    << <<"J", "a", "n", "u", "a", "r", "y">>,
       <<"F", "e", "b", "r", "u", "a", "r", "y">>,
       <<"M", "a", "r", "c", "h">>,
       <<"A", "p", "r", "i", "l">>,
       <<"M", "a", "y">>,
       <<"J", "u", "n", "e">>,
       <<"J", "u", "l", "y">>,
       <<"A", "u", "g", "u", "s", "t">>,
       <<"S", "e", "p", "t", "e", "m", "b", "e", "r">>,
       <<"O", "c", "t", "o", "b", "e", "r">>,
       <<"N", "o", "v", "e", "m", "b", "e", "r">>,
       <<"D", "e", "c", "e", "m", "b", "e", "r">> >>

day_name(d) == DayNames[weekday(d) + 1]

\* strftime("%-d %B %Y")
date_str(d) ==
    IntText(d.day) \o <<" ">> \o MonthNames[d.month] \o <<" ">> \o IntText(d.year)

LOCATION_NAME ==
    <<"W", "i", "t", "n", "e", "y", ",", " ", "O", "x", "f", "o", "r", "d",
      "s", "h", "i", "r", "e">>
TheGuardian == <<"T", "H", "E", " ", "G", "U", "A", "R", "D", "I", "A", "N">>
InBrief == <<"I", "N", " ", "B", "R", "I", "E", "F">>
NewsUnavailable ==
    <<"N", "e", "w", "s", " ", "u", "n", "a", "v", "a", "i", "l", "a", "b",
      "l", "e">>
TodaysReadings ==
    <<"T", "O", "D", "A", "Y", "'", "S", " ", "R", "E", "A", "D", "I", "N",
      "G", "S">>
EndOfYear == <<"E", "n", "d", " ", "o", "f", " ", "y", "e", "a", "r">>
Weekend == <<"W", "e", "e", "k", "e", "n", "d">>
Quote == <<"\"">>
Bullet == <<"bullet">>
Dash == <<"dash", " ">>
ReadingsSeparator == <<" ", " ", "middot", " ", " ">>

(***************************************************************************)
(* generate_pdf: the page and its zones                                    *)
(***************************************************************************)
pt == 1270
page_width == 210 * mm
page_height == 297 * mm
margin_left == 2 * cm
margin_right == page_width - 2 * cm
margin_top == page_height - 15 * mm
inspiration_top == 7 * cm
footer_y == 3 * cm
mid_x == page_width \div 2

\* draw_divider paints a rule from x1 to x2 at y: kept on the canvas as a
\* line of no text and size 0
draw_divider(cv, x1, py) == Append(cv, Painted(2 * x1, py, <<>>, "", 0))

\* int(v) for a float v kept in tenths: truncation toward zero
int(tenths) == IF tenths >= 0 THEN tenths \div 10 ELSE 0 - ((0 - tenths) \div 10)

\* Lines 379-392: the weather block, right-aligned at margin_right
DrawWeather(cv, py, weather) ==
    IF weather = <<>> THEN cv
    ELSE LET w == weather[1]
             temp_text == IntText(int(w.temperature)) \o <<"deg", "C">>
             hi_lo == <<"H", " ">> \o IntText(int(w.high)) \o <<"deg", " ", " ", "L", " ">>
                      \o IntText(int(w.low)) \o <<"deg">>
             a == draw_text(cv, margin_right, py, temp_text, FONTS.semibold, 28, "right", 0)
             b == draw_text(a.canvas, margin_right, py - 8 * mm, w.condition,
                            FONTS.medium, 10, "right", 0)
             c == draw_text(b.canvas, margin_right, py - 14 * mm, hi_lo,
                            FONTS.light, 8, "right", 0)
         IN c.canvas

\* The one element of a set of one element.  A value that is used several
\* times is drawn from such a set, {f(v) : v \in {e}}, so that e is worked
\* out once.
Only(S) == CHOOSE v \in S : TRUE

RECURSIVE DrawTopStories(_, _, _, _, _)
\* A variant that keeps the top stories 4 cm above the quotation zone.
DrawTopStories_wide_guard(cv, py, tops, i, cw) ==
    IF i > Len(tops) \/ py < inspiration_top + 4 * cm THEN [canvas |-> cv, y |-> py]
    ELSE Only({ DrawTopStories(s.canvas, s.ret - 8 * mm, tops, i + 1, cw) :
                s \in { draw_text(h.canvas, margin_left, h.ret - 5 * mm,
                                  tops[i].summary, FONTS.medium, 8, "left", cw) :
                        h \in { draw_text(cv, margin_left, py, tops[i].headline,
                                          FONTS.semibold, 11, "left", cw) } } })

\* Lines 422-436: the loop over the top stories, from story i on
DrawTopStories(cv, py, tops, i, cw) ==
    IF i > Len(tops) \/ py < inspiration_top + 3 * cm THEN [canvas |-> cv, y |-> py]
    ELSE Only({ DrawTopStories(s.canvas, s.ret - 8 * mm, tops, i + 1, cw) :
                s \in { draw_text(h.canvas, margin_left, h.ret - 5 * mm,
                                  tops[i].summary, FONTS.medium, 8, "left", cw) :
                        h \in { draw_text(cv, margin_left, py, tops[i].headline,
                                          FONTS.semibold, 11, "left", cw) } } })

\* Lines 446-454: the third story, in the left column
DrawThird(cv, py, third, col_width) ==
    IF third = <<>> THEN cv
    ELSE Only({ draw_text(h.canvas, margin_left, h.ret - 4 * mm, third[1].summary,
                          FONTS.medium, 8, "left", col_width).canvas :
                h \in { draw_text(cv, margin_left, py, third[1].headline,
                                  FONTS.semibold, 10, "left", col_width) } })

\* Lines 463-471: the loop over the headlines, from headline i on
RECURSIVE DrawHeadlines(_, _, _, _, _, _)
DrawHeadlines(cv, py, hs, i, right_x, col_width) ==
    IF i > Len(hs) \/ py < inspiration_top THEN cv
    ELSE Only({ DrawHeadlines(h.canvas, h.ret - 4 * mm, hs, i + 1, right_x, col_width) :
                h \in { draw_text(draw_text(cv, right_x, py, Bullet, FONTS.medium, 8,
                                            "left", 0).canvas,
                                  right_x + 3 * mm, py, hs[i], FONTS.medium, 8, "left",
                                  col_width - 3 * mm) } })

\* Lines 457-471: the In Brief column
DrawBrief(cv, py, hs, right_x, col_width) ==
    IF hs = <<>> THEN cv
    ELSE LET l == draw_text(cv, right_x, py, InBrief, FONTS.bold, 8, "left", 0)
         IN DrawHeadlines(l.canvas, py - 5 * mm, hs, 1, right_x, col_width)

\* Lines 438-471: the two columns under the top stories, which ended at t
DrawColumns(t, n, cw) ==
    IF t.y > inspiration_top + 1 * cm /\ (n.third_story # <<>> \/ n.headlines # <<>>)
    THEN LET col_width == (cw - 8 * mm) \div 2
             right_x == margin_left + col_width + 8 * mm
         IN [canvas |-> DrawBrief(DrawThird(t.canvas, t.y, n.third_story, col_width),
                                  t.y, n.headlines, right_x, col_width),
             y |-> t.y]
    ELSE t

\* Lines 417-475: the news section; n is the bundle fit_news_to_space returned
DrawNews(cv, py, n, cw) ==
    LET g == draw_text(cv, margin_left, py, TheGuardian, FONTS.bold, 9, "left", 0)
        y1 == py - 8 * mm
    IN IF n.top_stories # <<>> \/ n.third_story # <<>> \/ n.headlines # <<>>
       THEN Only({ DrawColumns(t, n, cw) :
                   t \in { DrawTopStories(g.canvas, y1, n.top_stories, 1, cw) } })
       ELSE [canvas |-> draw_text(g.canvas, margin_left, y1, NewsUnavailable,
                                  FONTS.medium, 10, "left", 0).canvas,
             y |-> y1 - 12 * mm]

\* Lines 478-505: the quotation
DrawInspiration(cv, highlight, cw) ==
    IF highlight = <<>> THEN cv
    ELSE LET h == highlight[1]
             inspiration_y == 65 * mm
             d == draw_divider(cv, margin_left, inspiration_y + 10 * mm)
             available_quote_height == inspiration_y - footer_y - 1 * cm
             quote_max_width == cw - 10 * mm
             chars_per_line == quote_max_width \div (5 * pt)
             max_lines == available_quote_height \div (13 * pt)
             max_quote_chars == Min(250, chars_per_line * max_lines)
             quote == truncate_text(h.text, max_quote_chars)
         IN Only({ draw_text(draw_text(q.canvas, margin_right, q.ret - 6 * mm,
                                       Dash \o h.author, FONTS.semibold, 9, "right",
                                       0).canvas,
                             margin_right, q.ret - 6 * mm - 4 * mm, h.title,
                             FONTS.light, 8, "right", 0).canvas :
                   q \in { draw_text(d, margin_left + 5 * mm, inspiration_y,
                                     Quote \o quote \o Quote, FONTS.light, 10, "left",
                                     cw - 10 * mm) } })

\* Lines 516-524: the verse, left of the middle
DrawVerse(cv, verse) ==
    IF verse = <<>> THEN cv
    ELSE LET verse_text == verse[1][1]
             verse_ref == verse[1][2]
             short_verse == truncate_text(verse_text, 80)
         IN Only({ draw_text(v.canvas, margin_left, v.ret - 4 * mm, Dash \o verse_ref,
                             FONTS.medium, 8, "left", 0).canvas :
                   v \in { draw_text(cv, margin_left, footer_y,
                                     Quote \o short_verse \o Quote, FONTS.light, 9,
                                     "left", mid_x - margin_left - 10 * mm) } })

\* "  .  ".join(rs) with the middle dot
RECURSIVE JoinReadings(_)
JoinReadings(rs) ==
    IF rs = <<>> THEN <<>>
    ELSE IF Len(rs) = 1 THEN rs[1]
    ELSE rs[1] \o ReadingsSeparator \o JoinReadings(Tail(rs))

IsReading(r) == r # <<>>

\* A variant that joins the readings as they come, the empty ones too.
DrawReadings_unfiltered(cv, readings) ==
    LET l == draw_text(cv, mid_x + 5 * mm, footer_y, TodaysReadings,
                       FONTS.bold, 8, "left", 0)
    IN IF readings # <<>> /\ readings[1] # <<>>
       THEN draw_text(l.canvas, mid_x + 5 * mm, footer_y - 5 * mm,
                      JoinReadings(readings[1]), FONTS.medium, 10, "left", 0).canvas
       ELSE draw_text(l.canvas, mid_x + 5 * mm, footer_y - 5 * mm, Weekend,
                      FONTS.light, 9, "left", 0).canvas

\* Lines 527-541: the readings, right of the middle.  readings is None
\* (<<>>) or a list (<<list>>); an empty list is as false as None.
DrawReadings(cv, readings) ==
    LET l == draw_text(cv, mid_x + 5 * mm, footer_y, TodaysReadings,
                       FONTS.bold, 8, "left", 0)
    IN IF readings # <<>> /\ readings[1] # <<>>
       THEN LET valid_readings == SelectSeq(readings[1], IsReading)
            IN IF valid_readings # <<>>
               THEN draw_text(l.canvas, mid_x + 5 * mm, footer_y - 5 * mm,
                              JoinReadings(valid_readings), FONTS.medium, 10,
                              "left", 0).canvas
               ELSE draw_text(l.canvas, mid_x + 5 * mm, footer_y - 5 * mm, EndOfYear,
                              FONTS.light, 9, "left", 0).canvas
       ELSE draw_text(l.canvas, mid_x + 5 * mm, footer_y - 5 * mm, Weekend,
                      FONTS.light, 9, "left", 0).canvas

\* c.showPage(): the page is closed
showPage_forgotten(p) == p

showPage(p) == p + 1

(***************************************************************************)
(* generate_pdf as a process: the header, the call of fit_news_to_space    *)
(* (the actions Call, Shorten, Drop, ReturnAfterDrop and Fallback above),  *)
(* the news, the quotation, the footer, and the page closed.               *)
(***************************************************************************)
\* Inputs: bundles for a page 170 mm wide with 172 mm for the news
BriefHeadlines == 23
BriefWordLetters == 30
LongSummaryWords == 50
WideWordLetters == 101
DropHeadlines == 16

PageBundles ==
    { Bundle(<<>>, <<>>, <<>>),
      Bundle(<<StoryA, StoryB>>, <<StoryC>>, <<H1, H2>>),
      Bundle(<<>>, <<>>, [i \in 1..BriefHeadlines |-> Words(2, BriefWordLetters, "h")]) }

\* A bundle that no shortening of its summaries need bring within the page
LongBundle ==
    Bundle(<< CuratedStory(Words(HeadlineWords, WordLetters, "a"),
                           Words(LongSummaryWords, WideWordLetters, "w")) >>,
           <<StoryC>>, <<H1, H2>>)

\* A bundle that comes within the page once a headline is dropped
DropBundle ==
    Bundle(<<StoryA, StoryB>>, <<>>, [i \in 1..DropHeadlines |-> H1])

\* A bundle that fills the height it is given: a top story whose headline
\* runs over many lines, a second one of one line, and no summaries
TightHeadlineLines == 26
TightWordLetters == 63
TightBundle ==
    Bundle(<< CuratedStory(Words(TightHeadlineLines, TightWordLetters, "a"), <<>>),
              CuratedStory(Words(HeadlineWords, WordLetters, "b"), <<>>) >>,
           <<>>, <<>>)

Weathers ==
    { <<>>,
      << [temperature |-> 47, condition |-> <<"P", "a", "r", "t", "l", "y", " ", "c", "l", "o", "u", "d", "y">>, high |-> 112, low |-> 0 - 15] >> }

Highlights ==
    { <<>>,
      << [text |-> Words(4, WordLetters, "q"), title |-> Words(2, WordLetters, "t"),
          author |-> Words(2, WordLetters, "u")] >>,
      << [text |-> Words(LongWords, WordLetters, "q"), title |-> Words(2, WordLetters, "t"),
          author |-> Words(2, WordLetters, "u")] >> }

\* A quotation of a few very long words, each of which takes a line of its
\* own, and short enough (245 characters) not to be truncated
WordyWords == 6
WordyLetters == 40
WordyHighlight ==
    << [text |-> Words(WordyWords, WordyLetters, "q"),
        title |-> Words(2, WordLetters, "t"),
        author |-> Words(2, WordLetters, "u")] >>

PageVerses ==
    { <<>>, << << Words(20, WordLetters, "v"), <<"P", "s", ".", " ", "1">> >> >> }

ReadingLists ==
    { <<>>,
      << <<>> >>,
      << << <<>>, <<>>, <<>> >> >>,
      << << <<"G", "e", "n", ".", " ", "1">>, <<"P", "s", ".", " ", "1">>, <<"L", "u", "k", "e", " ", "1">> >> >>,
      << << <<"G", "e", "n", ".", " ", "1">>, <<>>, <<"L", "u", "k", "e", " ", "1">> >> >> }

PageDates == { Date(2024, 3, 5), Date(2025, 11, 30) }

Contents ==
    { [date |-> d, weather |-> w, highlight |-> h, verse |-> v, readings |-> r] :
        d \in PageDates, w \in Weathers, h \in Highlights, v \in PageVerses,
        r \in ReadingLists }

\* The pages: every content with each of the bundles, the two bundles that
\* overflow with a content that has everything and with one that has
\* nothing, and the quotation of long words with no news
PageInputs ==
    (PageBundles \X Contents)
    \cup { <<b, c>> :
            b \in {LongBundle, DropBundle, TightBundle},
            c \in { k \in Contents :
                     /\ k.date = Date(2024, 3, 5)
                     /\ (k.weather = <<>>) = (k.highlight = <<>>)
                     /\ (k.weather = <<>>) = (k.verse = <<>>)
                     /\ (k.weather = <<>>) = (k.readings = <<>>)
                     /\ (k.highlight # <<>> => Len(k.highlight[1].text) > 250)
                     /\ (k.readings # <<>> => Len(k.readings[1]) = 3
                                              /\ k.readings[1][2] # <<>>) } }
    \cup { <<Bundle(<<>>, <<>>, <<>>), [k EXCEPT !.highlight = WordyHighlight]>> :
            k \in { c \in Contents :
                     /\ c.date = Date(2024, 3, 5)
                     /\ c.highlight = <<>>
                     /\ c.readings = <<>> } }

InitPage ==
    /\ mode = "fit"
    /\ pc = "wait"
    /\ \E in \in PageInputs :
         /\ storyLists = <<in[1].top_stories>>
         /\ strLists = <<in[1].headlines>>
         /\ objs = << [top_stories |-> 1, third_story |-> in[1].third_story,
                       headlines |-> 1] >>
         /\ input0 = in[1]
         /\ content = in[2]
    /\ news = 1
    /\ available_height = 0
    /\ content_width = 0
    /\ adjusted = 0
    /\ heights = NoHeights
    /\ overflow = 0
    /\ stories_to_try = <<>>
    /\ idx = 0
    /\ ret = 0
    /\ log = <<>>
    /\ round = 0
    /\ TextIdle
    /\ stage = "header"
    /\ page_y = margin_top
    /\ canvas = <<>>
    /\ pages = 0
    /\ draw_x = 0 /\ draw_y = 0 /\ align = "left" /\ today = <<>> /\ CurateIdle

\* Lines 367-415: the header, and the call of fit_news_to_space with the
\* height left above the quotation zone
PageHeader ==
    /\ stage = "header"
    /\ LET a == draw_text(canvas, margin_left, page_y, day_name(content.date),
                          FONTS.bold, 28, "left", 0)
           w == DrawWeather(a.canvas, page_y, content.weather)
           y1 == page_y - 9 * mm
           b == draw_text(w, margin_left, y1, date_str(content.date),
                          FONTS.medium, 12, "left", 0)
           y2 == y1 - 5 * mm
           c == draw_text(b.canvas, margin_left, y2, LOCATION_NAME,
                          FONTS.light, 9, "left", 0)
           y3 == y2 - 8 * mm
           y4 == y3 - 8 * mm
       IN /\ canvas' = draw_divider(c.canvas, margin_left, y3)
          /\ page_y' = y4
          /\ available_height' = y4 - inspiration_top - 1 * cm
          /\ content_width' = margin_right - margin_left
    /\ pc' = "call"
    /\ stage' = "fit"
    /\ UNCHANGED <<mode, storyLists, strLists, objs, news, adjusted, heights, overflow,
                   stories_to_try, idx, ret, input0, log, round>>
    /\ UNCHANGED <<draw_x, draw_y, align, content, pages, today, raw_news,
                   no_ai, response>>
    /\ UNCHANGED netVars
    /\ UNCHANGED textVars

\* Lines 417-475: the news section, once fit_news_to_space has returned
PageNews ==
    /\ stage = "fit" /\ mode = "fit" /\ pc = "done"
    /\ \E n \in { DrawNews(canvas, page_y, NewsValue(ret), content_width) } :
          /\ canvas' = n.canvas
          /\ page_y' = n.y
    /\ stage' = "inspiration"
    /\ UNCHANGED <<draw_x, draw_y, align, content, pages, today, raw_news,
                   no_ai, response>>
    /\ UNCHANGED netVars
    /\ UNCHANGED <<mode, pc>>
    /\ UNCHANGED fitVars
    /\ UNCHANGED textVars

\* Lines 478-505
PageInspiration ==
    /\ stage = "inspiration"
    /\ canvas' = DrawInspiration(canvas, content.highlight, content_width)
    /\ stage' = "footer"
    /\ UNCHANGED <<draw_x, draw_y, page_y, align, content, pages, today, raw_news,
                   no_ai, response>>
    /\ UNCHANGED netVars
    /\ UNCHANGED <<mode, pc>>
    /\ UNCHANGED fitVars
    /\ UNCHANGED textVars

\* Lines 508-541
PageFooter ==
    /\ stage = "footer"
    /\ canvas' = DrawReadings(DrawVerse(draw_divider(canvas, margin_left, footer_y + 8 * mm),
                                        content.verse),
                              content.readings)
    /\ stage' = "finish"
    /\ UNCHANGED <<draw_x, draw_y, page_y, align, content, pages, today, raw_news,
                   no_ai, response>>
    /\ UNCHANGED netVars
    /\ UNCHANGED <<mode, pc>>
    /\ UNCHANGED fitVars
    /\ UNCHANGED textVars

\* Lines 544-548: the page is closed and the document saved
PageFinish ==
    /\ stage = "finish"
    /\ pages' = showPage(pages)
    /\ stage' = "done"
    /\ UNCHANGED <<canvas, draw_x, draw_y, page_y, align, content, today, raw_news,
                   no_ai, response>>
    /\ UNCHANGED netVars
    /\ UNCHANGED <<mode, pc>>
    /\ UNCHANGED fitVars
    /\ UNCHANGED textVars

NextPage ==
    \/ PageHeader
    \/ Call
    \/ Shorten
    \/ Drop
    \/ ReturnAfterDrop
    \/ Fallback
    \/ PageNews
    \/ PageInspiration
    \/ PageFooter
    \/ PageFinish

SpecPage == InitPage /\ [][NextPage]_vars

(***************************************************************************)
(* draw_text on its own, next to measure_text_height of the same arguments *)
(***************************************************************************)
Aligns == {"left", "center", "right"}
DrawAt == { <<20 * mm, 100 * mm>>, <<0, 0>> }

PageOff ==
    /\ page_y = 0 /\ content = NoContent /\ stage = "idle" /\ pages = 0
    /\ today = <<>> /\ CurateIdle

InitDraw ==
    /\ mode = "draw"
    /\ pc = "call"
    /\ text \in TextsUpTo(MaxMeasureLen, MeasureAlphabet)
    /\ \E fs \in FontSizes : \E k \in HalfLetters :
         /\ mfont = fs[1]
         /\ msize = fs[2]
         /\ max_width = (k * stringWidth(<<"a">>, fs[1], fs[2])) \div 2
    /\ align \in Aligns
    /\ \E at \in DrawAt : draw_x = at[1] /\ draw_y = at[2]
    /\ canvas = <<>>
    /\ text2 = <<>> /\ max_length = 0 /\ result = <<>>
    /\ FitIdle
    /\ PageOff

\* canvas = what draw_text painted; result = the y it returned and the
\* height measure_text_height gives for the same text, font, size and width
Draw ==
    /\ mode = "draw" /\ pc = "call"
    /\ LET d == draw_text(canvas, draw_x, draw_y, text, mfont, msize, align, max_width)
       IN /\ canvas' = d.canvas
          /\ result' = << d.ret, measure_text_height(text, mfont, msize, max_width) >>
    /\ pc' = "done"
    /\ UNCHANGED <<mode, text, text2, max_length, max_width, mfont, msize>>
    /\ UNCHANGED <<draw_x, draw_y, page_y, align, content, stage, pages, today, raw_news,
                   no_ai, response>>
    /\ UNCHANGED netVars
    /\ UNCHANGED fitVars

NextDraw == Draw

SpecDraw == InitDraw /\ [][NextDraw]_vars

(***************************************************************************)
(* Properties                                                              *)
(***************************************************************************)
HasStory(b) == b.top_stories # <<>> \/ b.third_story # <<>>

IsShortenEntry(e) == e.op = "shorten"
IsDropEntry(e) == e.op = "drop"
IsTruncateEntry(e) == e.op = "truncate"

\* The shortening calls made so far, as <<story, target>> pairs in order
ShortenCalls ==
    LET es == SelectSeq(log, IsShortenEntry)
    IN [i \in 1..Len(es) |-> <<es[i].story, es[i].target>>]

\* What the input bundle measured when the call started
InputTotal == _measure_news_height(input0, content_width).total

\* The shortenings the claims expect for the input bundle, in order
ExpectedCalls ==
    (IF input0.third_story # <<>>
     THEN << <<"third", IF InputTotal - available_height > 20 * mm THEN 1 ELSE 2>> >>
     ELSE <<>>)
    \o (IF Len(input0.top_stories) >= 2 THEN << <<"top_1", 3>> >> ELSE <<>>)
    \o (IF Len(input0.top_stories) >= 1 THEN << <<"top_0", 4>> >> ELSE <<>>)

Returned == mode = "fit" /\ pc = "done"

\* C1: a bundle with a story whose measured total is within available_height
\* comes back with the content it went in with and no call of the shortening
\* capability; so does the bundle that call returned, handed in again (the
\* calls of round 2).
C1_FittingBundleUnchanged ==
    (Returned /\ HasStory(input0) /\ InputTotal <= available_height)
        => /\ NewsValue(ret) = input0
           /\ log = <<>>

\* A second call, on a returned bundle that measures exactly available_height,
\* has returned a copy
C1_Witness ==
    /\ Returned /\ round = 2 /\ HasStory(input0)
    /\ InputTotal = available_height
    /\ ret # news

\* C2: the input bundle is never modified: at every point of the call the
\* object the caller passed, and the lists it points to, hold what they held
\* when the call started.
C2_InputNeverModified ==
    mode = "fit" => NewsValue(news) = input0

\* A call that shortened, dropped and truncated, and returned another content
C2_Witness ==
    /\ Returned /\ round = 1
    /\ \E i \in 1..Len(log) : log[i].op = "shorten" /\ log[i].got = "text"
    /\ \E i \in 1..Len(log) : log[i].op = "drop"
    /\ \E i \in 1..Len(log) : log[i].op = "truncate"
    /\ NewsValue(ret) # input0
    /\ ret # news

\* C3: the shortening calls are made in the order third story, second top
\* story, first top story, skipping an absent one, with targets 1 or 2 (by
\* whether the overflow measured at the start exceeds 20 mm), 3 and 4; and
\* all of them have been made once the call goes on to drop headlines.
C3_ShorteningOrderAndTargets ==
    mode = "fit" =>
        /\ IsPrefix(ShortenCalls, ExpectedCalls)
        /\ (pc = "drop" => ShortenCalls = ExpectedCalls)

\* All three shortenings were tried on an overflow of exactly 20 mm
C3_Witness ==
    /\ mode = "fit" /\ pc = "drop"
    /\ InputTotal - available_height = 20 * mm
    /\ ShortenCalls = << <<"third", 2>>, <<"top_1", 3>>, <<"top_0", 4>> >>

\* C4: a shortening call that returns nothing (None, or an empty string)
\* leaves the working bundle as it was and the call goes on to the next
\* strategy: the next story in the plan, or the dropping of headlines after
\* the last one.
C4_NothingReturnedGoesOn ==
    [][ (/\ mode = "fit" /\ pc = "shorten"
         /\ Len(log') = Len(log) + 1
         /\ log'[Len(log')].op = "shorten"
         /\ log'[Len(log')].got # "text")
        => /\ NewsValue(adjusted)' = NewsValue(adjusted)
           /\ pc' = (IF idx < Len(stories_to_try) THEN "shorten" ELSE "drop")
           /\ idx' = idx + 1
           /\ ret' = 0 ]_vars

\* The last shortening returned None and the call went on to the drops
C4_Witness ==
    /\ mode = "fit" /\ pc = "drop"
    /\ Len(log) = Len(ExpectedCalls)
    /\ log[Len(log)].op = "shorten" /\ log[Len(log)].got = "none"
    /\ NewsValue(adjusted) = input0

\* C5: for every input bundle, one with headlines and no story included,
\* the returned headlines are a prefix of the input's, and on return the
\* measured total is within available_height or no headline is left.
C5_DropsUntilFitsOrEmpty ==
    Returned =>
        /\ IsPrefix(NewsValue(ret).headlines, input0.headlines)
        /\ \/ _measure_news_height(NewsValue(ret), content_width).total
                 <= available_height
           \/ NewsValue(ret).headlines = <<>>

\* The number of shortenings that apply to the input bundle
ApplicableCount ==
    (IF input0.third_story # <<>> THEN 1 ELSE 0)
    + (IF Len(input0.top_stories) >= 2 THEN 1 ELSE 0)
    + (IF Len(input0.top_stories) >= 1 THEN 1 ELSE 0)

\* C6: a headline is dropped only after every applicable shortening has been
\* attempted, and the third story's summary is truncated only after the
\* last drop and with no headline left in the list.
C6_ShortenThenDropThenTruncate ==
    mode = "fit" =>
        \A i \in 1..Len(log) :
            /\ log[i].op = "drop" =>
                 Len(SelectSeq(SubSeq(log, 1, i - 1), IsShortenEntry)) = ApplicableCount
            /\ log[i].op = "truncate" =>
                 /\ i = Len(log)
                 /\ NewsValue(adjusted).headlines = <<>>
                 /\ Len(SelectSeq(log, IsDropEntry)) = Len(input0.headlines)

\* Three shortenings, then every headline dropped, then the truncation
C6_Witness ==
    /\ Returned
    /\ Len(input0.headlines) = 3
    /\ Len(log) = 7
    /\ log[3].op = "shorten" /\ log[4].op = "drop" /\ log[6].op = "drop"
    /\ log[7].op = "truncate"

\* C7: the returned bundle has the input's top stories, as many, in the same
\* order and with the same headlines; a third story exactly when the input
\* has one, with the same headline; and headlines that are a prefix of the
\* input's.
C7_StructureKept ==
    Returned =>
        LET r == NewsValue(ret)
        IN /\ Len(r.top_stories) = Len(input0.top_stories)
           /\ \A i \in 1..Len(r.top_stories) :
                 r.top_stories[i].headline = input0.top_stories[i].headline
           /\ Len(r.third_story) = Len(input0.third_story)
           /\ (r.third_story # <<>> =>
                 r.third_story[1].headline = input0.third_story[1].headline)
           /\ IsPrefix(r.headlines, input0.headlines)

\* A returned bundle with every summary rewritten and one headline fewer
C7_Witness ==
    /\ Returned
    /\ Len(input0.top_stories) = 2 /\ input0.third_story # <<>>
    /\ \A i \in 1..2 : NewsValue(ret).top_stories[i].summary # input0.top_stories[i].summary
    /\ NewsValue(ret).third_story[1].summary # input0.third_story[1].summary
    /\ Len(NewsValue(ret).headlines) = Len(input0.headlines) - 1
    /\ Len(input0.headlines) >= 2

\* What the claims say truncate_text(t, n) returns, r
TruncatedWithin(t, n, r) ==
    IF Len(t) <= n THEN r = t
    ELSE /\ Len(r) <= n
         /\ Len(r) >= 3
         /\ SubSeq(r, Len(r) - 2, Len(r)) = Ellipsis
         /\ IsPrefix(SubSeq(r, 1, Len(r) - 3), t)

\* After the fallback's truncation the third story's summary is within the
\* character budget
FallbackWithinBudget ==
    (mode = "fit" /\ \E i \in 1..Len(log) : log[i].op = "truncate")
        => Len(NewsValue(adjusted).third_story[1].summary) <= TruncateBudget

\* C8 as stated: for every text and every max_length truncate_text returns
\* the text itself when it is no longer than max_length, else a prefix of it
\* followed by "..." of at most max_length characters in all; and the
\* fallback leaves a third-story summary of at most 200 characters.
C8_TruncateAnyLimit ==
    /\ (mode = "truncate" /\ pc = "done")
          => TruncatedWithin(text, max_length, result[1])
    /\ FallbackWithinBudget

\* C8, amended: the same for every max_length of at least 3, the length of
\* the ellipsis marker.
C8_TruncateLimitAtLeast3 ==
    /\ (mode = "truncate" /\ pc = "done" /\ max_length >= 3)
          => TruncatedWithin(text, max_length, result[1])
    /\ FallbackWithinBudget

\* A text cut at a word boundary, shorter than the limit allows
C8_Witness ==
    /\ mode = "truncate" /\ pc = "done"
    /\ max_length >= 3 /\ Len(text) > max_length
    /\ Len(result[1]) < max_length
    /\ result[1] # Ellipsis

\* The fallback cut a summary of more than 200 characters
C8_FallbackReached ==
    /\ Returned
    /\ log # <<>> /\ log[Len(log)].op = "truncate"
    /\ Len(input0.third_story[1].summary) > TruncateBudget
    /\ NewsValue(ret).third_story[1].summary
         = truncate_text(input0.third_story[1].summary, TruncateBudget)
    /\ NewsValue(ret).third_story[1].summary # input0.third_story[1].summary

\* With no room and a story in the bundle, what the call has done when it
\* returns
NoRoomReturn ==
    (Returned /\ available_height <= 0 /\ HasStory(input0)) =>
        /\ ret = adjusted /\ ret # 0
        /\ ShortenCalls = ExpectedCalls
        /\ Len(SelectSeq(log, IsDropEntry)) = Len(input0.headlines)
        /\ NewsValue(ret).headlines = <<>>
        /\ Len(SelectSeq(log, IsTruncateEntry))
             = (IF input0.third_story # <<>> THEN 1 ELSE 0)
        /\ (input0.third_story # <<>> =>
              Len(NewsValue(ret).third_story[1].summary) <= TruncateBudget)
        /\ heights.total > available_height

NoRoom == mode = "fit" /\ available_height <= 0 /\ HasStory(input0)

\* A call that has not returned has a next statement to run
NotStuck ==
    (NoRoom /\ pc # "done") =>
        \/ pc = "call"
        \/ pc = "shorten" /\ idx \in 1..Len(stories_to_try)
        \/ pc = "drop" /\ adjusted # 0

\* A bound on the statements a call has yet to run
StepsLeft ==
    IF pc = "call" THEN 8
    ELSE IF pc = "shorten"
    THEN (Len(stories_to_try) - idx + 1) + Len(strLists[objs[adjusted].headlines]) + 1
    ELSE IF pc = "drop" THEN Len(strLists[objs[adjusted].headlines]) + 1
    ELSE 0

\* C9: with available_height <= 0 and a bundle that has a story the call
\* always has a next statement until it returns, comes to its return in a
\* bounded number of steps, and returns after every applicable shortening
\* was attempted once, every headline was dropped and the third story's
\* summary, if there is a third story, was truncated; the bundle still
\* overflows.
C9_NoRoomRunsEveryStage ==
    /\ []NoRoomReturn
    /\ []NotStuck
    /\ [][(NoRoom /\ pc # "done") => (StepsLeft' < StepsLeft /\ StepsLeft' >= 0)]_vars

\* A full run on a budget of 0: three shortenings, three drops, a truncation
C9_Witness ==
    /\ Returned /\ available_height = 0
    /\ Len(ShortenCalls) = 3
    /\ Len(SelectSeq(log, IsDropEntry)) = 3
    /\ log[Len(log)].op = "truncate"
    /\ heights.total > 0

HasWord(t) == \E i \in 1..Len(t) : t[i] # " "

\* C10 as stated: of two texts the one that is not longer never measures
\* higher.
C10_MonotoneInLength ==
    (mode = "measure" /\ pc = "done" /\ Len(text) <= Len(text2))
        => result[1] <= result[2]

\* C10, amended: a text never measures higher than a text it is a prefix
\* of, when that longer text holds a word; the empty text measures 0, and
\* any other text a whole number of lines of size * 1.3.
C10_MonotoneInPrefix ==
    (mode = "measure" /\ pc = "done") =>
        /\ (IsPrefix(text, text2) /\ HasWord(text2)) => result[1] <= result[2]
        /\ text = <<>> => result[1] = 0
        /\ result[1] % (msize * LineUnit) = 0

\* A wrapped text of two lines is a prefix of one of three lines
C10_Witness ==
    /\ mode = "measure" /\ pc = "done"
    /\ IsPrefix(text, text2) /\ HasWord(text)
    /\ result[1] = 2 * msize * LineUnit
    /\ result[2] = 3 * msize * LineUnit

\* Blank text too wide for max_width wraps to no line at all, and measures
\* less than its own first character
C10_BlankTextMeasuresNothing ==
    /\ mode = "measure" /\ pc = "done"
    /\ IsPrefix(text, text2) /\ ~HasWord(text2)
    /\ result[1] > 0 /\ result[2] = 0

\* C11: for every non-empty text, font, size and max_width, the number of
\* lines draw_text paints times the line height (size * 1.3) is the height
\* measure_text_height gives; a text that measures one line is painted as
\* exactly one line.
C11_PaintedHeightIsMeasured ==
    (mode = "draw" /\ pc = "done" /\ text # <<>>) =>
        /\ Len(canvas) * (msize * LineUnit) = result[2]
        /\ (result[2] = msize * LineUnit => Len(canvas) = 1)

\* A text painted on three lines, and measured as three
C11_Witness ==
    /\ mode = "draw" /\ pc = "done"
    /\ Len(canvas) = 3
    /\ result[2] = 3 * msize * LineUnit

\* C12: draw_text returns y - (n - 1) * line_height when the text is wrapped
\* into n lines, painted at y, y - line_height, ... in the order of the
\* split; when no wrapping is needed it returns y and paints the text once,
\* at y, its x shifted left by the text width for align = right and by half
\* the width for align = center.
C12_ReturnsLastLine ==
    (mode = "draw" /\ pc = "done") =>
        LET w == stringWidth(text, mfont, msize)
            lh == msize * LineUnit
        IN IF max_width # 0 /\ w > max_width
           THEN LET lines == simpleSplit(text, mfont, msize, max_width)
                    n == Len(lines)
                IN /\ Len(canvas) = n
                   /\ result[1] = draw_y - (n - 1) * lh
                   /\ \A i \in 1..n :
                        /\ canvas[i].y = draw_y - (i - 1) * lh
                        /\ canvas[i].text = lines[i]
                        /\ canvas[i].x2 = 2 * draw_x
           ELSE /\ Len(canvas) = 1
                /\ result[1] = draw_y
                /\ canvas[1].y = draw_y
                /\ canvas[1].text = text
                /\ canvas[1].x2 = 2 * draw_x - (CASE align = "right" -> 2 * w
                                                  [] align = "center" -> w
                                                  [] OTHER -> 0)

\* A wrapped text whose last line is two lines below y
C12_Witness ==
    /\ mode = "draw" /\ pc = "done"
    /\ Len(canvas) = 3
    /\ result[1] = draw_y - 2 * msize * LineUnit
    /\ canvas[3].y = result[1]

\* An unwrapped text painted centred and another painted right-aligned
C12_AlignedWitness ==
    /\ mode = "draw" /\ pc = "done"
    /\ align = "center" /\ Len(canvas) = 1 /\ text # <<>>
    /\ canvas[1].x2 < 2 * draw_x
    /\ result[1] = draw_y


\* The lines of news painted by the step that draws the news section: what
\* the canvas holds after the step and did not hold before it
NewsStep == stage = "fit" /\ stage' = "inspiration"

\* C13: for every news bundle, whether it fits or still overflows after
\* fit_news_to_space, no line of news text is painted below inspiration_top,
\* the top anchor of the quotation zone, 7 cm above the bottom of the page.
C13_NewsStaysAboveQuotation ==
    [][NewsStep =>
         \A i \in (Len(canvas) + 1)..Len(canvas') :
             canvas'[i].y >= inspiration_top]_vars

\* What a finished page holds in each section: a line of text in the
\* weather block (right of the middle, in the header rows), in the news
\* section (under its heading, above the quotation zone), in the quotation
\* (indented 5 mm, between 6.5 cm and the footer) and in the readings slot
PageDone == stage = "done"

IsText(p) == p.text # <<>>

WeatherPainted ==
    \E i \in 1..Len(canvas) :
        /\ IsText(canvas[i])
        /\ canvas[i].y >= margin_top - 14 * mm
        /\ canvas[i].x2 > 2 * mid_x

NewsPainted ==
    \E i \in 1..Len(canvas) :
        /\ IsText(canvas[i])
        /\ canvas[i].y <= margin_top - 38 * mm
        /\ canvas[i].y >= inspiration_top

QuotationPainted ==
    \E i \in 1..Len(canvas) :
        /\ IsText(canvas[i])
        /\ canvas[i].x2 = 2 * (margin_left + 5 * mm)
        /\ canvas[i].y <= 65 * mm
        /\ canvas[i].y > footer_y

ReadingsPainted ==
    \E i \in 1..Len(canvas) :
        /\ IsText(canvas[i])
        /\ canvas[i].x2 = 2 * (mid_x + 5 * mm)
        /\ canvas[i].y = footer_y - 5 * mm

\* C14: on every run each section of the page (the weather in the header,
\* the news, the quotation, the readings in the footer) holds either its
\* content or a placeholder message; a section whose content is absent is
\* never left blank.
C14_NoSectionBlank ==
    PageDone =>
        /\ WeatherPainted
        /\ NewsPainted
        /\ QuotationPainted
        /\ ReadingsPainted

\* The lines painted in the readings slot, under "TODAY'S READINGS"
ReadingsSlot ==
    SelectSeq(canvas, LAMBDA p : /\ p.x2 = 2 * (mid_x + 5 * mm)
                                 /\ p.y = footer_y - 5 * mm)

\* C15: the readings slot of the footer holds exactly one line on every
\* run, never a blank one: the non-empty readings joined in their input
\* order when there is one; "End of year" when the list has readings and
\* every one of them is empty; "Weekend" when the readings are None.
C15_ReadingsSlot ==
    PageDone =>
        /\ Len(ReadingsSlot) = 1
        /\ ReadingsSlot[1].text # <<>>
        /\ LET rs == content.readings
               given == SelectSeq(rs[1], LAMBDA t : t # <<>>)
           IN /\ (rs # <<>> /\ given # <<>>) =>
                    ReadingsSlot[1].text = JoinReadings(given)
              /\ (rs # <<>> /\ rs[1] # <<>> /\ given = <<>>) =>
                    ReadingsSlot[1].text = EndOfYear
              /\ rs = <<>> => ReadingsSlot[1].text = Weekend

\* A page whose second reading is empty: the first and the third are joined
C15_Witness ==
    /\ PageDone
    /\ content.readings # <<>>
    /\ Len(content.readings[1]) = 3
    /\ content.readings[1][2] = <<>>
    /\ ReadingsSlot[1].text =
         content.readings[1][1] \o ReadingsSeparator \o content.readings[1][3]

\* A page whose three readings are empty, and a page without readings
C15_EndOfYearWitness ==
    /\ PageDone
    /\ content.readings # <<>> /\ Len(content.readings[1]) = 3
    /\ ReadingsSlot[1].text = EndOfYear

C15_WeekendWitness ==
    /\ PageDone
    /\ content.readings = <<>>
    /\ ReadingsSlot[1].text = Weekend

\* A run that has not closed its page has a next statement to run
PageNotStuck ==
    /\ stage \in {"header", "fit", "inspiration", "footer", "finish", "done"}
    /\ stage = "header" => pc = "wait"
    /\ stage = "fit" =>
          \/ pc = "call"
          \/ pc = "shorten" /\ idx \in 1..Len(stories_to_try)
          \/ pc = "drop" /\ adjusted # 0
          \/ pc = "done" /\ ret # 0
    /\ stage \in {"inspiration", "footer", "finish", "done"} => pc = "done"

\* A bound on the statements a run has yet to execute
PageStepsLeft ==
    (CASE stage = "header" -> 5
       [] stage = "fit" -> 4
       [] stage = "inspiration" -> 3
       [] stage = "footer" -> 2
       [] stage = "finish" -> 1
       [] OTHER -> 0)
    + (IF pc \in {"wait", "call"} THEN Len(strLists[objs[news].headlines]) + 5
       ELSE StepsLeft)

\* The header, the news heading and the footer are on the canvas
SectionsDrawn ==
    /\ \E i \in 1..Len(canvas) :
          canvas[i].text = day_name(content.date) /\ canvas[i].y = margin_top
    /\ \E i \in 1..Len(canvas) : canvas[i].text = TheGuardian
    /\ NewsPainted
    /\ \E i \in 1..Len(canvas) :
          canvas[i].text = TodaysReadings /\ canvas[i].y = footer_y
    /\ Len(ReadingsSlot) = 1

\* C17: for every combination of present or absent weather, highlight,
\* verse and readings and of empty or non-empty news, generate_pdf always
\* has a next statement until the page is closed, comes to its end in a
\* bounded number of steps, and closes exactly one page, once, after every
\* section was drawn.
C17_OnePageClosedOnce ==
    /\ [](pages = (IF stage = "done" THEN 1 ELSE 0))
    /\ []PageNotStuck
    /\ [][PageStepsLeft' < PageStepsLeft /\ PageStepsLeft' >= 0]_vars
    /\ [][pages' # pages =>
            (stage = "finish" /\ SectionsDrawn /\ canvas' = canvas)]_vars

\* A finished page for a day with no weather, no news, no highlight, no
\* verse and no readings
C17_Witness ==
    /\ PageDone /\ pages = 1
    /\ content.weather = <<>> /\ content.highlight = <<>>
    /\ content.verse = <<>> /\ content.readings = <<>>
    /\ input0 = Bundle(<<>>, <<>>, <<>>)
    /\ \E i \in 1..Len(canvas) : canvas[i].text = NewsUnavailable

\* A finished page with everything on it and news that was shortened
C17_FullWitness ==
    /\ PageDone /\ pages = 1
    /\ content.weather # <<>> /\ content.highlight # <<>>
    /\ content.verse # <<>> /\ content.readings # <<>>
    /\ log # <<>>

(***************************************************************************)
(* The news bundle on its way to fit_news_to_space: main of                *)
(* generate_daily.py, curate_and_summarize and _fallback.  An article is   *)
(* a record [headline, summary].  A JSON value of the answer is a record   *)
(* [type, headline, summary] for a story and [type, value] for a headline, *)
(* type being "dict", "str" or "null"; a key that is missing reads as the  *)
(* empty string, as s.get(key, "") has it.                                 *)
(***************************************************************************)
\* articles[a:b] of Python, for 0 <= a
Slice(q, a, b) == SubSeq(q, a + 1, Min(b, Len(q)))

\* _fallback(articles), lines 152-160
_fallback(articles) ==
    Bundle([i \in 1..Len(Slice(articles, 0, 2)) |->
              CuratedStory(articles[i].headline, articles[i].summary)],
           IF Len(articles) > 2
           THEN << CuratedStory(articles[3].headline, articles[3].summary) >>
           ELSE <<>>,
           [i \in 1..Len(Slice(articles, 3, 7)) |-> Slice(articles, 3, 7)[i].headline])

IsStoryDict(s) == s.type = "dict" /\ s.headline # <<>>

IsHeadlineStr(h) == h.type = "str" /\ h.value # <<>>

StoryOf(s) == CuratedStory(s.headline, s.summary)

\* Lines 125-139: the bundle built from the parsed answer
FromAnswer(answer) ==
    LET kept == SelectSeq(answer.top_stories, IsStoryDict)
        heads == SelectSeq(answer.headlines, IsHeadlineStr)
    IN Bundle([i \in 1..Len(kept) |-> StoryOf(kept[i])],
              IF IsStoryDict(answer.third_story)
              THEN << StoryOf(answer.third_story) >> ELSE <<>>,
              [i \in 1..Len(heads) |-> heads[i].value])

\* curate_and_summarize(articles), lines 58-149.  resp is <<>> when there is
\* no API key, the request fails, the content is empty or the text is not
\* JSON, and <<answer>> when the text was parsed.
curate_and_summarize(articles, resp) ==
    IF articles = <<>> THEN Bundle(<<>>, <<>>, <<>>)
    ELSE IF resp = <<>> THEN _fallback(articles)
    ELSE FromAnswer(resp[1])

\* Lines 113-124 of generate_daily.py: the bundle main hands to generate_pdf
MainNews(fetched, noai, resp) ==
    IF ~noai /\ fetched # <<>>
    THEN curate_and_summarize(
             [i \in 1..Len(fetched) |->
                [headline |-> fetched[i].headline, summary |-> fetched[i].summary]],
             resp)
    ELSE Bundle([i \in 1..Len(Slice(fetched, 0, 2)) |->
                   CuratedStory(fetched[i].headline, fetched[i].summary)],
                IF Len(fetched) > 2
                THEN << CuratedStory(fetched[3].headline, fetched[3].summary) >>
                ELSE <<>>,
                [i \in 1..Len(Slice(fetched, 3, 7)) |-> Slice(fetched, 3, 7)[i].headline])

\* Inputs: up to MaxArticles articles, told apart by their length
MaxArticles == 8

Article(k) == [headline |-> Words(k, 2, "n"), summary |-> Words(k + 2, WordLetters, "n")]

JsonStory(h, s) == [type |-> "dict", headline |-> h, summary |-> s]
JsonNull == [type |-> "null", headline |-> <<>>, summary |-> <<>>]
JsonNotDict == [type |-> "str", headline |-> <<>>, summary |-> <<>>]
JsonStr(v) == [type |-> "str", value |-> v]
JsonNumber == [type |-> "number", value |-> <<>>]

Answer(tops, third, hs) == [top_stories |-> tops, third_story |-> third, headlines |-> hs]

AnsweredStory(k) == JsonStory(Words(k, 3, "x"), Words(TopSummaryWords, WordLetters, "x"))

Responses ==
    { <<>>,
      << Answer(<<AnsweredStory(1), AnsweredStory(2)>>, AnsweredStory(3),
                <<JsonStr(H1), JsonStr(H2)>>) >>,
      << Answer(<<AnsweredStory(1), AnsweredStory(2), AnsweredStory(3)>>, JsonNull,
                <<>>) >>,
      << Answer(<<AnsweredStory(1), JsonStory(<<>>, H1), JsonNotDict>>,
                JsonStory(<<>>, H2), <<JsonStr(<<>>), JsonStr(H1), JsonNumber>>) >>,
      << Answer(<<>>, AnsweredStory(1), <<JsonStr(H1)>>) >>,
      << Answer(<<AnsweredStory(1), AnsweredStory(2), AnsweredStory(3),
                  AnsweredStory(4)>>, AnsweredStory(5), <<JsonStr(H1)>>) >> }

InitCurate ==
    /\ mode = "fit"
    /\ pc = "main"
    /\ raw_news \in { [i \in 1..k |-> Article(i)] : k \in 0..MaxArticles }
    /\ no_ai \in BOOLEAN
    /\ response \in Responses
    /\ storyLists = <<>> /\ strLists = <<>> /\ objs = <<>>
    /\ news = 0
    /\ input0 = Bundle(<<>>, <<>>, <<>>)
    /\ available_height = 0
    /\ content_width = 0
    /\ adjusted = 0
    /\ heights = NoHeights
    /\ overflow = 0
    /\ stories_to_try = <<>>
    /\ idx = 0
    /\ ret = 0
    /\ log = <<>>
    /\ round = 0
    /\ TextIdle
    /\ canvas = <<>> /\ draw_x = 0 /\ draw_y = 0 /\ page_y = 0 /\ align = "left"
    /\ content = NoContent /\ stage = "idle" /\ pages = 0 /\ today = <<>>
    /\ NetIdle

\* main builds the bundle, and generate_pdf calls fit_news_to_space with it,
\* the height left for the news and the width of the page between the margins
Curate ==
    /\ mode = "fit" /\ pc = "main"
    /\ \E b \in { MainNews(raw_news, no_ai, response) } :
         /\ storyLists' = <<b.top_stories>>
         /\ strLists' = <<b.headlines>>
         /\ objs' = << [top_stories |-> 1, third_story |-> b.third_story,
                        headlines |-> 1] >>
         /\ input0' = b
    /\ news' = 1
    /\ available_height' = (margin_top - 30 * mm) - inspiration_top - 1 * cm
    /\ content_width' = margin_right - margin_left
    /\ pc' = "call"
    /\ UNCHANGED <<mode, adjusted, heights, overflow, stories_to_try, idx, ret, log,
                   round>>
    /\ UNCHANGED textVars
    /\ UNCHANGED pageVars

NextCurate == Curate \/ Call

SpecCurate == InitCurate /\ [][NextCurate]_vars

\* C16: every bundle that reaches fit_news_to_space, whether built from the
\* answer of the model, by _fallback or by main without AI, has at most 2
\* top stories, and at most 2 top stories are measured.
C16_AtMostTwoTopStories ==
    (raw_news # <<>> /\ pc # "main") =>
        /\ Len(input0.top_stories) <= 2
        /\ Len(heights.top_stories) <= 2

\* The same for the bundles that were not built from an answer
C16_FallbackAtMostTwo ==
    (raw_news # <<>> /\ pc # "main" /\ (no_ai \/ response = <<>>)) =>
        /\ Len(input0.top_stories) <= 2
        /\ Len(heights.top_stories) <= 2

(***************************************************************************)
(* The daily verse and the daily readings.  A verse is the pair of its     *)
(* text and its reference, both strings.  A reading is the sequence of the *)
(* pieces its f-string joins, <<"Gen.", " ", "1">> for "Gen. 1"; the empty *)
(* string is <<>>.                                                         *)
(***************************************************************************)
VERSES ==
    << <<"Trust in the LORD with all your heart and lean not on your own understanding.",
         "Proverbs 3:5">>,
       <<"The LORD is my shepherd; I shall not want.",
         "Psalm 23:1">>,
       <<"For I know the plans I have for you, declares the LORD, plans to prosper you and not to harm you, plans to give you hope and a future.",
         "Jeremiah 29:11">>,
       <<"Be strong and courageous. Do not be afraid; do not be discouraged, for the LORD your God will be with you wherever you go.",
         "Joshua 1:9">>,
       <<"I can do all things through Christ who strengthens me.",
         "Philippians 4:13">>,
       <<"The LORD is my light and my salvation; whom shall I fear?",
         "Psalm 27:1">>,
       <<"Come to me, all you who are weary and burdened, and I will give you rest.",
         "Matthew 11:28">>,
       <<"But seek first his kingdom and his righteousness, and all these things will be given to you as well.",
         "Matthew 6:33">>,
       <<"And we know that in all things God works for the good of those who love him.",
         "Romans 8:28">>,
       <<"The steadfast love of the LORD never ceases; his mercies never come to an end; they are new every morning.",
         "Lamentations 3:22-23">>,
       <<"Do not be anxious about anything, but in every situation, by prayer and petition, with thanksgiving, present your requests to God.",
         "Philippians 4:6">>,
       <<"For God so loved the world that he gave his one and only Son, that whoever believes in him shall not perish but have eternal life.",
         "John 3:16">>,
       <<"The LORD bless you and keep you; the LORD make his face shine on you and be gracious to you.",
         "Numbers 6:24-25">>,
       <<"Be still, and know that I am God.",
         "Psalm 46:10">>,
       <<"Your word is a lamp for my feet, a light on my path.",
         "Psalm 119:105">>,
       <<"Cast all your anxiety on him because he cares for you.",
         "1 Peter 5:7">>,
       <<"The grass withers and the flowers fall, but the word of our God endures forever.",
         "Isaiah 40:8">>,
       <<"Have I not commanded you? Be strong and courageous. Do not be afraid; do not be discouraged.",
         "Joshua 1:9">>,
       <<"But the fruit of the Spirit is love, joy, peace, forbearance, kindness, goodness, faithfulness, gentleness and self-control.",
         "Galatians 5:22-23">>,
       <<"He has shown you, O mortal, what is good. And what does the LORD require of you? To act justly and to love mercy and to walk humbly with your God.",
         "Micah 6:8">>,
       <<"Create in me a pure heart, O God, and renew a steadfast spirit within me.",
         "Psalm 51:10">>,
       <<"The name of the LORD is a fortified tower; the righteous run to it and are safe.",
         "Proverbs 18:10">>,
       <<"Blessed are the peacemakers, for they will be called children of God.",
         "Matthew 5:9">>,
       <<"This is the day that the LORD has made; let us rejoice and be glad in it.",
         "Psalm 118:24">>,
       <<"In the beginning was the Word, and the Word was with God, and the Word was God.",
         "John 1:1">>,
       <<"The heavens declare the glory of God; the skies proclaim the work of his hands.",
         "Psalm 19:1">>,
       <<"Love is patient, love is kind. It does not envy, it does not boast, it is not proud.",
         "1 Corinthians 13:4">>,
       <<"Therefore, if anyone is in Christ, the new creation has come: The old has gone, the new is here!",
         "2 Corinthians 5:17">>,
       <<"Wait for the LORD; be strong and take heart and wait for the LORD.",
         "Psalm 27:14">>,
       <<"Great is the LORD and most worthy of praise; his greatness no one can fathom.",
         "Psalm 145:3">>,
       <<"The LORD is close to the brokenhearted and saves those who are crushed in spirit.",
         "Psalm 34:18">> >>

\* get_daily_verse(for_date), lines 41-53; VERSES[i] of Python is VERSES[i + 1]
get_daily_verse(for_date) ==
    LET day_of_year == tm_yday(for_date)
        verse_index == day_of_year % Len(VERSES)
    IN VERSES[verse_index + 1]

\* book_abbreviations(book): mapping.get(book, book)
book_abbreviations(book) ==
    CASE book = "Genesis" -> "Gen."
      [] book = "Exodus" -> "Ex."
      [] book = "Leviticus" -> "Lev."
      [] book = "Numbers" -> "Num."
      [] book = "Deuteronomy" -> "Deut."
      [] book = "Joshua" -> "Josh."
      [] book = "Judges" -> "Judg."
      [] book = "Ruth" -> "Ruth"
      [] book = "1 Samuel" -> "1 Sam."
      [] book = "2 Samuel" -> "2 Sam."
      [] book = "1 Kings" -> "1 Kings"
      [] book = "2 Kings" -> "2 Kings"
      [] book = "1 Chronicles" -> "1 Chron."
      [] book = "2 Chronicles" -> "2 Chron."
      [] book = "Ezra" -> "Ezra"
      [] book = "Nehemiah" -> "Neh."
      [] book = "Esther" -> "Est."
      [] book = "Job" -> "Job"
      [] book = "Psalms" -> "Ps."
      [] book = "Proverbs" -> "Prov"
      [] book = "Ecclesiastes" -> "Eccles."
      [] book = "Song of Solomon" -> "Song"
      [] book = "Song of Songs" -> "Song"
      [] book = "Isaiah" -> "Isa."
      [] book = "Jeremiah" -> "Jer."
      [] book = "Lamentations" -> "Lam."
      [] book = "Ezekiel" -> "Ezek."
      [] book = "Daniel" -> "Dan."
      [] book = "Hosea" -> "Hos."
      [] book = "Joel" -> "Joel"
      [] book = "Amos" -> "Amos"
      [] book = "Obadiah" -> "Obad."
      [] book = "Jonah" -> "Jonah"
      [] book = "Micah" -> "Micah"
      [] book = "Nahum" -> "Nahum"
      [] book = "Habakkuk" -> "Hab."
      [] book = "Zephaniah" -> "Zeph."
      [] book = "Haggai" -> "Hag."
      [] book = "Zechariah" -> "Zech."
      [] book = "Malachi" -> "Mal."
      [] book = "Matthew" -> "Matt."
      [] book = "Mark" -> "Mark"
      [] book = "Luke" -> "Luke"
      [] book = "John" -> "John"
      [] book = "Acts" -> "Acts"
      [] book = "Romans" -> "Rom."
      [] book = "1 Corinthians" -> "1 Cor."
      [] book = "2 Corinthians" -> "2 Cor."
      [] book = "Galatians" -> "Gal."
      [] book = "Ephesians" -> "Eph."
      [] book = "Philippians" -> "Phil."
      [] book = "Colossians" -> "Col."
      [] book = "1 Thessalonians" -> "1 Thess."
      [] book = "2 Thessalonians" -> "2 Thess."
      [] book = "1 Timothy" -> "1 Tim."
      [] book = "2 Timothy" -> "2 Tim."
      [] book = "Titus" -> "Titus"
      [] book = "Philemon" -> "Philem."
      [] book = "Hebrews" -> "Heb."
      [] book = "James" -> "James"
      [] book = "1 Peter" -> "1 Pet."
      [] book = "2 Peter" -> "2 Pet."
      [] book = "1 John" -> "1 John"
      [] book = "2 John" -> "2 John"
      [] book = "3 John" -> "3 John"
      [] book = "Jude" -> "Jude"
      [] book = "Revelation" -> "Rev"
      [] OTHER -> book

\* expand_book(book, chapters, start, step), lines 80-91; start = 0 and
\* step = 1 are the defaults
expand_book(book, chapters, start, step) ==
    LET book_short == book_abbreviations(book)
        first == IF start > 0 THEN start - 1 ELSE start
    IN IF step = 1
       THEN [i \in 1..Max(chapters - first, 0) |->
               <<book_short, " ">> \o IntText((first + i - 1) + 1)]
       ELSE [i \in 1..Max((chapters - first + step - 1) \div step, 0) |->
               LET r == first + (i - 1) * step
               IN <<book_short, " ">> \o IntText(r + 1) \o <<" ", "-", " ">>
                  \o IntText(Min(r + step, chapters))]

\* readings[n] with the IndexError caught: "" beyond the end of the list
PlanAt(readings, n) == IF n < Len(readings) THEN readings[n + 1] ELSE <<>>

\* old_yr1, lines 94-119: the list
OldYr1Plan ==
    expand_book("Genesis", 50, 0, 1)
    \o expand_book("Exodus", 40, 0, 1)
    \o expand_book("Joshua", 11, 0, 1)
    \o expand_book("Judges", 9, 6, 1)
    \o expand_book("Ruth", 4, 0, 1)
    \o expand_book("1 Samuel", 30, 0, 1)
    \o expand_book("2 Samuel", 24, 0, 1)
    \o expand_book("1 Kings", 22, 0, 1)
    \o expand_book("Ezra", 10, 0, 1)
    \o << <<book_abbreviations("Nehemiah"), " ", "1">>,
          <<book_abbreviations("Nehemiah"), " ", "2-3">>,
          <<book_abbreviations("Nehemiah"), " ", "4">>,
          <<book_abbreviations("Nehemiah"), " ", "5">>,
          <<book_abbreviations("Nehemiah"), " ", "6-7">>,
          <<book_abbreviations("Nehemiah"), " ", "8">>,
          <<book_abbreviations("Nehemiah"), " ", "9">>,
          <<book_abbreviations("Nehemiah"), " ", "10">>,
          <<book_abbreviations("Nehemiah"), " ", "11-13">> >>
    \o expand_book("Esther", 10, 0, 1)
    \o expand_book("Isaiah", 6, 0, 1)
    \o expand_book("Isaiah", 66, 40, 1)
    \o expand_book("Daniel", 6, 0, 1)
    \o expand_book("Jonah", 4, 0, 1)

old_yr1(n) == PlanAt(OldYr1Plan, n)

\* new, lines 127-156: the list
NewPlan ==
    expand_book("Luke", 24, 0, 1)
    \o expand_book("Acts", 28, 0, 1)
    \o expand_book("Romans", 16, 0, 1)
    \o expand_book("Matthew", 28, 0, 1)
    \o expand_book("1 Corinthians", 16, 0, 1)
    \o expand_book("2 Corinthians", 13, 0, 1)
    \o expand_book("Galatians", 6, 0, 1)
    \o expand_book("Ephesians", 6, 0, 1)
    \o expand_book("Philippians", 4, 0, 1)
    \o expand_book("Colossians", 4, 0, 1)
    \o expand_book("Mark", 16, 0, 1)
    \o expand_book("1 Thessalonians", 5, 0, 1)
    \o expand_book("2 Thessalonians", 3, 0, 1)
    \o expand_book("1 Timothy", 6, 0, 1)
    \o expand_book("2 Timothy", 4, 0, 1)
    \o expand_book("Titus", 3, 0, 1)
    \o << <<book_abbreviations("Philemon")>> >>
    \o expand_book("Hebrews", 13, 0, 1)
    \o expand_book("John", 21, 0, 1)
    \o expand_book("James", 5, 0, 1)
    \o expand_book("1 Peter", 5, 0, 1)
    \o expand_book("2 Peter", 3, 0, 1)
    \o expand_book("1 John", 5, 0, 1)
    \o << <<book_abbreviations("2 John")>>,
          <<book_abbreviations("3 John")>>,
          <<book_abbreviations("Jude")>> >>
    \o expand_book("Revelation", 22, 0, 1)

new(n) == PlanAt(NewPlan, n)

\* psalms, lines 167-191: the psalms read two at a time, and the two loops
ShortPsalms ==
    {3, 11, 13, 23, 29, 32, 39, 43, 52, 57, 63, 69, 76, 79, 86, 92, 99, 104, 111,
     116, 120, 122, 137}

\* r is passed over by the loop that starts at first: the step before it
\* was at r - 1, a psalm read with the next one (r += 2)
RECURSIVE PassedOver(_, _)
PassedOver(r, first) ==
    r > first /\ (r - 1) \in ShortPsalms /\ ~PassedOver(r - 1, first)

\* The readings one while loop appends: r from first while r < stop
PsalmsFrom(first, stop) ==
    LET at == SelectSeq([i \in 1..Max(stop - first, 0) |-> first + i - 1],
                        LAMBDA r : ~PassedOver(r, first))
    IN [k \in 1..Len(at) |->
          IF at[k] \notin ShortPsalms
          THEN <<book_abbreviations("Psalms"), " ">> \o IntText(at[k])
          ELSE <<book_abbreviations("Psalms"), " ">> \o IntText(at[k])
               \o <<" ", "-", " ">> \o IntText(at[k] + 1)]

PsalmsPlan ==
    PsalmsFrom(1, 119)
    \o << <<book_abbreviations("Psalms"), " ", "119 v1-32">>,
          <<book_abbreviations("Psalms"), " ", "119 v33-96">>,
          <<book_abbreviations("Psalms"), " ", "119 v97-144">>,
          <<book_abbreviations("Psalms"), " ", "119 v145-176">> >>
    \o PsalmsFrom(120, 151)

psalms(n) == PlanAt(PsalmsPlan, n)

\* A variant that counts the day of end as well.
count_weekdays_inclusive(start, end) ==
    Cardinality({ n \in tm_yday(start)..tm_yday(end) :
                    weekday(DateOfYday(start.year, n)) < 5 })

\* count_weekdays(start, end), lines 199-207, for two dates of one year:
\* the days from start (inclusive) to end (exclusive) that are Mon-Fri
count_weekdays(start, end) ==
    Cardinality({ n \in tm_yday(start)..(tm_yday(end) - 1) :
                    weekday(DateOfYday(start.year, n)) < 5 })

\* A variant that takes Saturday for a weekday.
get_todays_readings_on_saturdays(for_date) ==
    IF weekday(for_date) > 5 THEN <<>>
    ELSE LET reading_index == count_weekdays(Date(for_date.year, 1, 1), for_date)
         IN << << old_yr1(reading_index), psalms(reading_index),
                  new(reading_index) >> >>

\* get_todays_readings(for_date), lines 210-231: None (<<>>) or a list
get_todays_readings(for_date) ==
    IF weekday(for_date) >= 5 THEN <<>>
    ELSE LET year_start == Date(for_date.year, 1, 1)
             reading_index == count_weekdays(year_start, for_date)
         IN << << old_yr1(reading_index), psalms(reading_index),
                  new(reading_index) >> >>

\* Inputs: every day of the years FirstYear..LastYear
FirstYear == 2023
LastYear == 2024

Days ==
    { DateOfYday(yr, n) : yr \in FirstYear..LastYear, n \in 1..365 }
    \cup { DateOfYday(yr, 366) : yr \in { k \in FirstYear..LastYear : IsLeap(k) } }

InitDates ==
    /\ mode = "date"
    /\ pc = "call"
    /\ today \in { <<d>> : d \in Days }
    /\ result = <<>>
    /\ text = <<>> /\ text2 = <<>> /\ max_length = 0 /\ max_width = 0
    /\ mfont = FONTS.medium /\ msize = 10
    /\ FitIdle
    /\ canvas = <<>> /\ draw_x = 0 /\ draw_y = 0 /\ page_y = 0 /\ align = "left"
    /\ content = NoContent /\ stage = "idle" /\ pages = 0
    /\ CurateIdle

\* get_daily_verse(today)
GetVerse ==
    /\ mode = "date" /\ pc = "call"
    /\ result' = << get_daily_verse(today[1]) >>
    /\ pc' = "verse"
    /\ UNCHANGED <<mode, text, text2, max_length, max_width, mfont, msize>>
    /\ UNCHANGED fitVars
    /\ UNCHANGED pageVars

\* get_todays_readings(today)
GetReadings ==
    /\ mode = "date" /\ pc = "call"
    /\ result' = << get_todays_readings(today[1]) >>
    /\ pc' = "readings"
    /\ UNCHANGED <<mode, text, text2, max_length, max_width, mfont, msize>>
    /\ UNCHANGED fitVars
    /\ UNCHANGED pageVars

NextDates == GetVerse \/ GetReadings

SpecDates == InitDates /\ [][NextDates]_vars

(***************************************************************************)
(* A year of mornings: get_todays_readings called on 1 January and on     *)
(* every day after it to 31 December, the trace keeping what it returned. *)
(***************************************************************************)
WalkFirstYear == 2020
WalkLastYear == 2026

Read(d, r) == [op |-> "readings", date |-> d, result |-> r]

InitWalk ==
    /\ mode = "walk"
    /\ pc = "call"
    /\ today \in { <<Date(yr, 1, 1)>> : yr \in WalkFirstYear..WalkLastYear }
    /\ result = <<>>
    /\ text = <<>> /\ text2 = <<>> /\ max_length = 0 /\ max_width = 0
    /\ mfont = FONTS.medium /\ msize = 10
    /\ FitIdle
    /\ canvas = <<>> /\ draw_x = 0 /\ draw_y = 0 /\ page_y = 0 /\ align = "left"
    /\ content = NoContent /\ stage = "idle" /\ pages = 0
    /\ CurateIdle

\* get_todays_readings(today), as the morning's run calls it
WalkReadings ==
    /\ mode = "walk" /\ pc = "call"
    /\ \E r \in { get_todays_readings(today[1]) } :
         /\ result' = <<r>>
         /\ trace' = Append(trace, Read(today[1], r))
    /\ pc' = "readings"
    /\ UNCHANGED <<mode, text, text2, max_length, max_width, mfont, msize>>
    /\ UNCHANGED <<max_retries, delay, attempt, outcome, start_page, cursor,
                   next_cursor, pages_fetched, all_highlights, registered_count, skip_i>>
    /\ UNCHANGED <<canvas, draw_x, draw_y, page_y, align, content, stage, pages,
                   today, raw_news, no_ai, response>>
    /\ UNCHANGED fitVars

\* The next day of the same year
WalkNextDay ==
    /\ mode = "walk" /\ pc = "readings"
    /\ tm_yday(today[1]) < (IF IsLeap(today[1].year) THEN 366 ELSE 365)
    /\ today' = << DateOfYday(today[1].year, tm_yday(today[1]) + 1) >>
    /\ result' = <<>>
    /\ pc' = "call"
    /\ UNCHANGED <<mode, text, text2, max_length, max_width, mfont, msize>>
    /\ UNCHANGED netVars
    /\ UNCHANGED <<canvas, draw_x, draw_y, page_y, align, content, stage, pages,
                   raw_news, no_ai, response>>
    /\ UNCHANGED fitVars

NextWalk == WalkReadings \/ WalkNextDay

SpecWalk == InitWalk /\ [][NextWalk]_vars

(***************************************************************************)
(* _retry_request (weather.py and readwise.py hold the same function).    *)
(* func is the environment: each call of it succeeds, raises a            *)
(* requests.RequestException or raises some other exception.  A value     *)
(* returned and an error raised are known by the call they came from.     *)
(***************************************************************************)
MaxRetries == 4
Delays == {0, 1, 3}
FuncResults == {"ok", "RequestException", "Exception"}

RECURSIVE Pow2(_)
Pow2(n) == IF n <= 0 THEN 1 ELSE 2 * Pow2(n - 1)

\* A variant that backs off in equal steps.
Backoff_linear(d, a) == d * (a + 1)

\* Line 26: delay * (2 ** attempt)
Backoff(d, a) == d * Pow2(a)

Called(a, res) == [op |-> "call", attempt |-> a, result |-> res]
Slept(secs) == [op |-> "sleep", secs |-> secs]
\* What the function ended with: the value returned (<<>> for None) or the
\* error raised
ReturnOf(v) == << [kind |-> "return", value |-> v] >>
Raised(type, a) == << [kind |-> "raise", type |-> type, attempt |-> a] >>

\* The state a run of _retry_request, get_random_highlight or register_fonts
\* starts from, its own variables apart
NetStart ==
    /\ FitIdle /\ TextIdle
    /\ canvas = <<>> /\ draw_x = 0 /\ draw_y = 0 /\ page_y = 0 /\ align = "left"
    /\ content = NoContent /\ pages = 0 /\ today = <<>>
    /\ raw_news = <<>> /\ no_ai = FALSE /\ response = <<>>

InitRetry ==
    /\ mode = "retry"
    /\ pc = "loop"
    /\ max_retries \in 0..MaxRetries
    /\ delay \in Delays
    /\ attempt = 0
    /\ trace = <<>>
    /\ outcome = <<>>
    /\ start_page = 0 /\ cursor = <<>> /\ next_cursor = <<>>
    /\ pages_fetched = 0 /\ all_highlights = <<>> /\ registered_count = 0 /\ skip_i = 0
    /\ stage = "idle"
    /\ NetStart

\* Lines 16-26: one turn of the loop, func answering res
RetryAttempt ==
    /\ mode = "retry" /\ pc = "loop"
    /\ attempt < max_retries
    /\ \E res \in FuncResults :
         IF res = "ok"
         THEN /\ trace' = Append(trace, Called(attempt, res))
              /\ outcome' = ReturnOf(<<attempt>>)
              /\ pc' = "done"
              /\ UNCHANGED attempt
         ELSE IF res = "Exception" \/ attempt = max_retries - 1
         THEN /\ trace' = Append(trace, Called(attempt, res))
              /\ outcome' = Raised(res, attempt)
              /\ pc' = "done"
              /\ UNCHANGED attempt
         ELSE /\ trace' = trace \o << Called(attempt, res),
                                      Slept(Backoff(delay, attempt)) >>
              /\ attempt' = attempt + 1
              /\ UNCHANGED <<outcome, pc>>
    /\ UNCHANGED <<mode, max_retries, delay, start_page, cursor, next_cursor,
                   pages_fetched, all_highlights, registered_count, skip_i>>
    /\ UNCHANGED <<canvas, draw_x, draw_y, page_y, align, content, stage, pages,
                   today, raw_news, no_ai, response>>
    /\ UNCHANGED fitVars
    /\ UNCHANGED textVars

\* Line 27: the loop ran out without a call (max_retries is not positive)
RetryExhausted ==
    /\ mode = "retry" /\ pc = "loop"
    /\ attempt >= max_retries
    /\ outcome' = ReturnOf(<<>>)
    /\ pc' = "done"
    /\ UNCHANGED <<mode, max_retries, delay, attempt, trace, start_page, cursor,
                   next_cursor, pages_fetched, all_highlights, registered_count, skip_i>>
    /\ UNCHANGED <<canvas, draw_x, draw_y, page_y, align, content, stage, pages,
                   today, raw_news, no_ai, response>>
    /\ UNCHANGED fitVars
    /\ UNCHANGED textVars

NextRetry == RetryAttempt \/ RetryExhausted

SpecRetry == InitRetry /\ [][NextRetry]_vars

(***************************************************************************)
(* get_random_highlight and _skip_pages.  The server is the environment:  *)
(* a page request, made through _retry_request, ends with a page that     *)
(* names a next cursor, a page that names none, a request error (raised   *)
(* by _retry_request or by raise_for_status), a body that is not JSON, or *)
(* a body that is not an object.  A cursor is known by the request that   *)
(* returned it; a highlight by its page and the length of its text.       *)
(***************************************************************************)
MIN_HIGHLIGHT_LENGTH == 20
MAX_PAGES == 5
MAX_RANDOM_PAGE_OFFSET == 10

PageResults == {"next", "last", "RequestException", "JSONDecodeError", "AttributeError"}

\* The lengths of the highlight texts of a page
PageBodies == { <<0, MIN_HIGHLIGHT_LENGTH>>, <<MIN_HIGHLIGHT_LENGTH + 1>> }

\* Line 96: whether `except requests.RequestException` catches the error.
\* The JSONDecodeError that response.json() raises is a RequestException
\* from requests 2.27 on and a plain ValueError before: either may be
\* installed.
CaughtAsRequestError(res) ==
    IF res = "JSONDecodeError" THEN BOOLEAN ELSE {res = "RequestException"}

Get(phase, c) == [op |-> "get", phase |-> phase, pageCursor |-> c]

\* A variant that takes every answer to name a next page.
Truthy_always(c) == TRUE

\* `if cursor`, `if not next_cursor`: None and the empty string are falsy
Truthy(c) == c # <<>>

\* Lines 126-134: the highlights of a page long enough to keep
Kept(body, page) ==
    LET long == SelectSeq(body, LAMBDA l : l # 0 /\ l > MIN_HIGHLIGHT_LENGTH)
    IN [i \in 1..Len(long) |-> [page |-> page, length |-> long[i]]]

InitHighlight ==
    /\ mode = "highlight"
    /\ pc = "start"
    /\ max_retries = 0 /\ delay = 0 /\ attempt = 0
    /\ trace = <<>>
    /\ outcome = <<>>
    /\ start_page = 0 /\ cursor = <<>> /\ next_cursor = <<>>
    /\ pages_fetched = 0 /\ all_highlights = <<>> /\ registered_count = 0 /\ skip_i = 0
    /\ stage = "idle"
    /\ NetStart

\* Lines 82-94 and 48-51: no token, or the draw of the page to start from
HighlightStart ==
    /\ mode = "highlight" /\ pc = "start"
    /\ \E token \in BOOLEAN : \E drawn \in 1..MAX_RANDOM_PAGE_OFFSET :
         IF ~token
         THEN /\ drawn = 1
              /\ outcome' = ReturnOf(<<>>)
              /\ pc' = "done"
              /\ UNCHANGED start_page
         ELSE /\ start_page' = drawn
              /\ pc' = IF drawn <= 1 THEN "collect" ELSE "skip"
              /\ UNCHANGED outcome
    /\ UNCHANGED <<mode, max_retries, delay, attempt, trace, cursor, next_cursor,
                   pages_fetched, all_highlights, registered_count, skip_i>>
    /\ UNCHANGED <<canvas, draw_x, draw_y, page_y, align, content, stage, pages,
                   today, raw_news, no_ai, response>>
    /\ UNCHANGED fitVars
    /\ UNCHANGED textVars

\* Lines 52-73 and 94-99: one turn of the loop of _skip_pages, and what
\* get_random_highlight makes of its return or of the error it raised
SkipPage ==
    /\ mode = "highlight" /\ pc = "skip"
    /\ skip_i < start_page - 1
    /\ trace' = Append(trace, Get("skip", IF Truthy(cursor) THEN cursor ELSE <<>>))
    /\ \E res \in PageResults :
         \E caught \in CaughtAsRequestError(res) :
         \E c \in { IF res = "next" THEN <<Len(trace) + 1>> ELSE <<>> } :
           CASE res \in {"next", "last"} ->
                  /\ cursor' = c
                  /\ skip_i' = skip_i + 1
                  /\ IF ~Truthy(c)
                     THEN next_cursor' = <<>> /\ pc' = "collect"
                     ELSE IF skip_i + 1 < start_page - 1
                     THEN UNCHANGED <<next_cursor, pc>>
                     ELSE next_cursor' = c /\ pc' = "collect"
                  /\ UNCHANGED <<start_page, outcome>>
             [] caught ->
                  /\ next_cursor' = <<>>
                  /\ start_page' = 1
                  /\ pc' = "collect"
                  /\ UNCHANGED <<cursor, skip_i, outcome>>
             [] res = "JSONDecodeError" ->
                  /\ outcome' = ReturnOf(<<>>)
                  /\ pc' = "done"
                  /\ UNCHANGED <<cursor, skip_i, next_cursor, start_page>>
             [] OTHER ->
                  /\ outcome' = Raised(res, Len(trace) + 1)
                  /\ pc' = "done"
                  /\ UNCHANGED <<cursor, skip_i, next_cursor, start_page>>
    /\ UNCHANGED <<mode, max_retries, delay, attempt, pages_fetched, all_highlights,
                   registered_count>>
    /\ UNCHANGED <<canvas, draw_x, draw_y, page_y, align, content, stage, pages,
                   today, raw_news, no_ai, response>>
    /\ UNCHANGED fitVars
    /\ UNCHANGED textVars

\* Lines 104-139 and 146-148: one turn of the loop that collects
CollectPage ==
    /\ mode = "highlight" /\ pc = "collect"
    /\ pages_fetched < MAX_PAGES
    /\ trace' = Append(trace, Get("collect",
                                  IF Truthy(next_cursor) THEN next_cursor ELSE <<>>))
    /\ \E res \in PageResults :
         \E body \in (IF res \in {"next", "last"} THEN PageBodies ELSE {<<>>}) :
         \E c \in { IF res = "next" THEN <<Len(trace) + 1>> ELSE <<>> } :
           CASE res \in {"next", "last"} ->
                  /\ pages_fetched' = pages_fetched + 1
                  /\ all_highlights' = all_highlights \o Kept(body, pages_fetched + 1)
                  /\ next_cursor' = c
                  /\ pc' = IF Truthy(c) /\ pages_fetched + 1 < MAX_PAGES
                           THEN "collect" ELSE "choose"
                  /\ UNCHANGED outcome
             [] res \in {"RequestException", "JSONDecodeError"} ->
                  /\ outcome' = ReturnOf(<<>>)
                  /\ pc' = "done"
                  /\ UNCHANGED <<pages_fetched, all_highlights, next_cursor>>
             [] OTHER ->
                  /\ outcome' = Raised(res, Len(trace) + 1)
                  /\ pc' = "done"
                  /\ UNCHANGED <<pages_fetched, all_highlights, next_cursor>>
    /\ UNCHANGED <<mode, max_retries, delay, attempt, start_page, cursor,
                   registered_count, skip_i>>
    /\ UNCHANGED <<canvas, draw_x, draw_y, page_y, align, content, stage, pages,
                   today, raw_news, no_ai, response>>
    /\ UNCHANGED fitVars
    /\ UNCHANGED textVars

\* Lines 141-144: None, or one of the highlights collected
ChooseHighlight ==
    /\ mode = "highlight" /\ pc = "choose"
    /\ IF all_highlights = <<>>
       THEN outcome' = ReturnOf(<<>>)
       ELSE \E i \in 1..Len(all_highlights) : outcome' = ReturnOf(<<all_highlights[i]>>)
    /\ pc' = "done"
    /\ UNCHANGED <<mode, max_retries, delay, attempt, trace, start_page, cursor,
                   next_cursor, pages_fetched, all_highlights, registered_count, skip_i>>
    /\ UNCHANGED <<canvas, draw_x, draw_y, page_y, align, content, stage, pages,
                   today, raw_news, no_ai, response>>
    /\ UNCHANGED fitVars
    /\ UNCHANGED textVars

NextHighlight == HighlightStart \/ SkipPage \/ CollectPage \/ ChooseHighlight

SpecHighlight == InitHighlight /\ [][NextHighlight]_vars

(***************************************************************************)
(* register_fonts, and generate_pdf up to the header.  The file system    *)
(* and ReportLab are the environment: a font is registered, or its file   *)
(* is missing (get_font_path raises), or ReportLab rejects the file.      *)
(***************************************************************************)
RegisteredFonts ==
    << "Montserrat-Medium", "Montserrat-SemiBold", "Montserrat-Bold",
       "Montserrat-Light" >>

FontResults == {"registered", "FileNotFoundError", "TTFError"}

Font(name, res) == [op |-> "font", font |-> name, result |-> res]

\* A variant that wants every font.
NoneRegistered_unless_all(count) == count < Len(RegisteredFonts)

\* Line 71: registered_count == 0
NoneRegistered(count) == count = 0

InitFonts ==
    /\ mode = "fonts"
    /\ pc = "loop"
    /\ max_retries = 0 /\ delay = 0 /\ attempt = 0
    /\ trace = <<>>
    /\ outcome = <<>>
    /\ start_page = 0 /\ cursor = <<>> /\ next_cursor = <<>>
    /\ pages_fetched = 0 /\ all_highlights = <<>> /\ registered_count = 0 /\ skip_i = 0
    /\ FitIdle /\ TextIdle
    /\ canvas = <<>> /\ draw_x = 0 /\ draw_y = 0 /\ page_y = 0 /\ align = "left"
    /\ content \in { k \in Contents :
                       /\ k.highlight = <<>> /\ k.verse = <<>> /\ k.readings = <<>>
                       /\ k.date = Date(2024, 3, 5) }
    /\ stage = "fonts" /\ pages = 0 /\ today = <<>>
    /\ raw_news = <<>> /\ no_ai = FALSE /\ response = <<>>

\* Lines 62-69: one turn of the loop; an error is logged and the loop goes on
RegisterFont ==
    /\ mode = "fonts" /\ pc = "loop"
    /\ Len(trace) < Len(RegisteredFonts)
    /\ \E res \in FontResults :
         /\ trace' = Append(trace, Font(RegisteredFonts[Len(trace) + 1], res))
         /\ registered_count' = IF res = "registered" THEN registered_count + 1
                                ELSE registered_count
    /\ UNCHANGED <<mode, pc, max_retries, delay, attempt, outcome, start_page, cursor,
                   next_cursor, pages_fetched, all_highlights, skip_i>>
    /\ UNCHANGED <<canvas, draw_x, draw_y, page_y, align, content, stage, pages,
                   today, raw_news, no_ai, response>>
    /\ UNCHANGED fitVars
    /\ UNCHANGED textVars

\* Lines 71-76 and 355-366: register_fonts raises, and generate_pdf with it,
\* or returns, and generate_pdf opens its canvas
RegisterFontsEnd ==
    /\ mode = "fonts" /\ pc = "loop"
    /\ Len(trace) = Len(RegisteredFonts)
    /\ IF NoneRegistered(registered_count)
       THEN /\ outcome' = Raised("RuntimeError", 0)
            /\ pc' = "done"
            /\ stage' = "aborted"
            /\ UNCHANGED page_y
       ELSE /\ outcome' = ReturnOf(<<>>)
            /\ pc' = "wait"
            /\ stage' = "header"
            /\ page_y' = margin_top
    /\ UNCHANGED <<mode, max_retries, delay, attempt, trace, start_page, cursor,
                   next_cursor, pages_fetched, all_highlights, registered_count, skip_i>>
    /\ UNCHANGED <<canvas, draw_x, draw_y, align, content, pages, today, raw_news,
                   no_ai, response>>
    /\ UNCHANGED fitVars
    /\ UNCHANGED textVars

NextFonts == RegisterFont \/ RegisterFontsEnd \/ PageHeader

SpecFonts == InitFonts /\ [][NextFonts]_vars

\* C18: get_daily_verse starts its rotation at the first verse: the verse
\* for day-of-year d is VERSES[(d - 1) mod len(VERSES)], so 1 January gives
\* VERSES[0]; the index always lies inside the list.
C18_RotationStartsAtFirstVerse ==
    (mode = "date" /\ pc = "verse") =>
        LET d == tm_yday(today[1])
            index == (d - 1) % Len(VERSES)
        IN /\ index \in 0..(Len(VERSES) - 1)
           /\ result[1] = VERSES[index + 1]

\* What the code does hold to: a verse of the list, the same for the same
\* day of the year
C18_SomeVerseOfTheList ==
    (mode = "date" /\ pc = "verse") =>
        /\ \E i \in 1..Len(VERSES) : result[1] = VERSES[i]
        /\ result[1] = VERSES[(tm_yday(today[1]) % Len(VERSES)) + 1]

\* The books of each plan, as their readings begin
OldTestamentBooks ==
    {"Gen.", "Ex.", "Josh.", "Judg.", "Ruth", "1 Sam.", "2 Sam.", "1 Kings", "Ezra",
     "Neh.", "Est.", "Isa.", "Dan.", "Jonah"}

NewTestamentBooks ==
    {"Luke", "Acts", "Rom.", "Matt.", "1 Cor.", "2 Cor.", "Gal.", "Eph.", "Phil.",
     "Col.", "Mark", "1 Thess.", "2 Thess.", "1 Tim.", "2 Tim.", "Titus", "Philem.",
     "Heb.", "John", "James", "1 Pet.", "2 Pet.", "1 John", "2 John", "3 John", "Jude",
     "Rev"}

\* The weekdays of the year before the date, counted one day at a time
WeekdaysBefore(d) ==
    Cardinality({ n \in 1..(tm_yday(d) - 1) :
                    (toordinal(Date(d.year, 1, 1)) + (n - 1) + 6) % 7 \in 0..4 })

\* C19: get_todays_readings returns None exactly on a Saturday or a Sunday;
\* on every weekday it returns a list of exactly three strings, the Old
\* Testament reading, the psalm and the New Testament reading in that
\* order, and a plan that has run out of entries gives the empty string.
C19_ReadingsByWeekday ==
    (mode = "date" /\ pc = "readings") =>
        LET d == today[1]
            got == result[1]
            n == WeekdaysBefore(d)
        IN /\ (got = <<>>) = (weekday(d) \in {5, 6})
           /\ got # <<>> =>
                /\ Len(got) = 1 /\ Len(got[1]) = 3
                /\ (got[1][1] = <<>>) = (n >= Len(OldYr1Plan))
                /\ (got[1][2] = <<>>) = (n >= Len(PsalmsPlan))
                /\ (got[1][3] = <<>>) = (n >= Len(NewPlan))
                /\ got[1][1] # <<>> =>
                      got[1][1] = OldYr1Plan[n + 1]
                      /\ got[1][1][1] \in OldTestamentBooks
                /\ got[1][2] # <<>> =>
                      got[1][2] = PsalmsPlan[n + 1] /\ got[1][2][1] = "Ps."
                /\ got[1][3] # <<>> =>
                      got[1][3] = NewPlan[n + 1]
                      /\ got[1][3][1] \in NewTestamentBooks

\* Friday 29 December 2023: two plans have run out, the third has not
C19_Witness ==
    /\ mode = "date" /\ pc = "readings"
    /\ today = <<Date(2023, 12, 29)>>
    /\ result = << << << <<>>, <<>>, <<"Rev", " ", "2", "2">> >> >> >>

\* A Saturday, and the first weekday of a year
C19_WeekendWitness ==
    /\ mode = "date" /\ pc = "readings"
    /\ weekday(today[1]) = 5
    /\ result = << <<>> >>

C19_FirstDayWitness ==
    /\ mode = "date" /\ pc = "readings"
    /\ today = <<Date(2024, 1, 1)>>
    /\ result = << << << <<"Gen.", " ", "1">>, <<"Ps.", " ", "1">>,
                         <<"Luke", " ", "1">> >> >> >>

\* The last measurement is the measurement of the working copy as it is
MeasuredAfresh ==
    (mode = "fit" /\ adjusted # 0) =>
        heights = _measure_news_height(NewsValue(adjusted), content_width)

\* C20: fit_news_to_space measures the total again after each shortening
\* attempt and each headline drop, and returns as soon as the total is
\* <= available_height: a shortening call, a drop or the truncation is only
\* made when the last measurement overflowed, and a call whose last
\* measurement fits returns in its next step with the bundle measured.
C20_StopsAsSoonAsItFits ==
    /\ []MeasuredAfresh
    /\ [][(mode = "fit" /\ round' = round /\ log' # log) =>
            /\ heights.total > available_height
            /\ Len(log') = Len(log) + 1
            /\ heights' = _measure_news_height(NewsValue(adjusted)', content_width)]_vars
    /\ [][(mode = "fit" /\ adjusted # 0 /\ pc # "done"
           /\ heights.total <= available_height) =>
            /\ pc' = "done" /\ ret' = adjusted
            /\ log' = log
            /\ NewsValue(adjusted)' = NewsValue(adjusted)]_vars

\* A call that returned after the attempt on the second top story, the
\* first top story never attempted
C20_Witness ==
    /\ Returned /\ round = 1
    /\ log # <<>>
    /\ log[Len(log)].op = "shorten" /\ log[Len(log)].story = "top_1"
    /\ idx < Len(stories_to_try)
    /\ stories_to_try[idx + 1][1] = "top_0"
    /\ heights.total <= available_height

\* A call that returned after a drop, with headlines left
C20_DropWitness ==
    /\ Returned /\ round = 1
    /\ log # <<>>
    /\ log[Len(log)].op = "drop"
    /\ NewsValue(ret).headlines # <<>>
    /\ heights.total <= available_height

\* truncate_text shortened the text; what it kept of it, before the "..."
Shortens == mode = "truncate" /\ pc = "done" /\ Len(text) > max_length

KeptPrefix == SubSeq(result[1], 1, Len(result[1]) - 3)

\* C21 as stated: whenever truncate_text shortens a text, the character of
\* the text right after the kept prefix is a space, for every text and
\* every max_length: no word is cut in the middle.
C21_AlwaysAtWordBoundary ==
    Shortens => /\ Len(KeptPrefix) < Len(text)
                /\ text[Len(KeptPrefix) + 1] = " "

\* C21, amended: when the first max_length - 3 characters hold a space past
\* the middle of the limit (0-based index > max_length // 2), the kept
\* prefix ends right before the last such space; otherwise the kept prefix
\* is the first max_length - 3 characters, whatever follows them.
C21_AtLastSpacePastTheMiddle ==
    Shortens =>
        LET head == SliceTo(text, max_length - 3)
            past == { i \in 1..Len(head) :
                        head[i] = " " /\ i - 1 > max_length \div 2 }
        IN /\ IsPrefix(KeptPrefix, text)
           /\ IF past # {}
              THEN /\ text[Len(KeptPrefix) + 1] = " "
                   /\ Len(KeptPrefix) + 1 \in past
                   /\ \A i \in past : i <= Len(KeptPrefix) + 1
              ELSE KeptPrefix = head

\* A text cut before its last space, two words kept and a third dropped
C21_Witness ==
    /\ Shortens
    /\ max_length >= 3
    /\ Len(KeptPrefix) < max_length - 3
    /\ text[Len(KeptPrefix) + 1] = " "
    /\ \E i \in 1..Len(KeptPrefix) : KeptPrefix[i] = " "
    /\ KeptPrefix[Len(KeptPrefix)] # " "

\* A word cut in the middle
C21_MidWordWitness ==
    /\ Shortens
    /\ max_length >= 3
    /\ KeptPrefix # <<>>
    /\ KeptPrefix[Len(KeptPrefix)] # " "
    /\ text[Len(KeptPrefix) + 1] # " "

\* The step that draws the quotation: what the canvas holds after it and
\* did not hold before it
InspirationStep == stage = "inspiration" /\ stage' = "footer"

\* C22: for every highlight text, title and author, every line of text of
\* the quotation block (the wrapped lines of the quote, the author line and
\* the title line) is painted above the footer divider at footer_y + 8 mm.
C22_QuotationAboveFooterDivider ==
    [][InspirationStep =>
         \A i \in (Len(canvas) + 1)..Len(canvas') :
             IsText(canvas'[i]) => canvas'[i].y > footer_y + 8 * mm]_vars

\* The calls of func in the trace, and what a finished run made of them
FuncCalls == SelectSeq(trace, LAMBDA e : e.op = "call")

RetryDone == mode = "retry" /\ pc = "done"

\* C23: _retry_request calls func at most max_retries times; the calls are
\* numbered from 0, every call but the last raised a request error and was
\* followed by a sleep of delay * 2^attempt and then the next call, and no
\* sleep follows the last call; a success is returned at once, a
\* non-request exception propagates at once, and the max_retries-th
\* request error in a row is re-raised.
C23_RetryWithBackoff ==
    mode = "retry" =>
        /\ Len(FuncCalls) <= max_retries
        /\ \A i \in 1..Len(trace) :
             IF i % 2 = 1
             THEN trace[i] = Called((i - 1) \div 2, trace[i].result)
             ELSE /\ trace[i - 1].result = "RequestException"
                  /\ trace[i] = Slept(delay * Pow2((i - 2) \div 2))
                  /\ pc = "done" => i < Len(trace)
        /\ \A i \in 1..(Len(FuncCalls) - 1) :
             FuncCalls[i].result = "RequestException"
        /\ pc = "done" /\ FuncCalls # <<>> =>
             LET last == FuncCalls[Len(FuncCalls)]
             IN /\ trace[Len(trace)] = last
                /\ last.result = "ok" => outcome = ReturnOf(<<last.attempt>>)
                /\ last.result = "Exception" =>
                       outcome = Raised("Exception", last.attempt)
                /\ last.result = "RequestException" =>
                       /\ Len(FuncCalls) = max_retries
                       /\ outcome = Raised("RequestException", max_retries - 1)
        /\ pc = "done" /\ FuncCalls = <<>> =>
             max_retries = 0 /\ outcome = ReturnOf(<<>>)
        /\ pc # "done" => outcome = <<>>

\* Three request errors in a row with max_retries = 3: two sleeps, of delay
\* and of twice the delay, and the third error raised
C23_Witness ==
    /\ RetryDone
    /\ max_retries = 3
    /\ delay = 3
    /\ trace = << Called(0, "RequestException"), Slept(3),
                  Called(1, "RequestException"), Slept(6),
                  Called(2, "RequestException") >>
    /\ outcome = Raised("RequestException", 2)

\* A success on the second call is returned without a third call
C23_SuccessWitness ==
    /\ RetryDone
    /\ max_retries = 4
    /\ Len(FuncCalls) = 2
    /\ outcome = ReturnOf(<<1>>)

\* The page requests of each phase made so far
SkipRequests == SelectSeq(trace, LAMBDA e : e.phase = "skip")
CollectRequests == SelectSeq(trace, LAMBDA e : e.phase = "collect")

\* A run of get_random_highlight that is not over has a next statement
HighlightNotStuck ==
    /\ pc \in {"start", "skip", "collect", "choose", "done"}
    /\ pc = "skip" => skip_i < start_page - 1
    /\ pc = "collect" => pages_fetched < MAX_PAGES
    /\ pc = "done" => outcome # <<>>

\* A bound on the statements a run has yet to execute
HighlightStepsLeft ==
    CASE pc = "start" -> MAX_RANDOM_PAGE_OFFSET + MAX_PAGES + 1
      [] pc = "skip" -> (start_page - 1 - skip_i) + MAX_PAGES + 1
      [] pc = "collect" -> (MAX_PAGES - pages_fetched) + 1
      [] pc = "choose" -> 1
      [] OTHER -> 0

\* C24: get_random_highlight always comes to its end, whatever the server
\* answers and even if every page names a next cursor: the skip phase makes
\* at most start_page - 1 <= 9 requests, each with the cursor the request
\* before it returned, and falls back to the first page (no cursor) when
\* the chain ends or a request fails; the collection makes at most
\* MAX_PAGES = 5 requests and stops at the first page with no next cursor.
C24_BoundedPageRequests ==
    /\ [](mode = "highlight" =>
            /\ HighlightNotStuck
            /\ Len(SkipRequests) <= MAX_RANDOM_PAGE_OFFSET - 1
            /\ pc = "skip" => Len(SkipRequests) = skip_i
            /\ Len(CollectRequests) <= MAX_PAGES
            /\ Len(CollectRequests) \in {pages_fetched, pages_fetched + 1}
            /\ \A i \in 1..Len(SkipRequests) :
                 trace[i] = Get("skip", IF i = 1 THEN <<>> ELSE <<i - 1>>)
            /\ \A i \in 2..Len(CollectRequests) :
                 CollectRequests[i].pageCursor = <<Len(SkipRequests) + i - 1>>
            /\ (CollectRequests # <<>> /\ Len(SkipRequests) < start_page - 1) =>
                 CollectRequests[1].pageCursor = <<>>
            /\ (pc = "collect" /\ pages_fetched > 0) => next_cursor # <<>>)
    /\ [][HighlightStepsLeft' < HighlightStepsLeft /\ HighlightStepsLeft' >= 0]_vars
    /\ [][SkipRequests' # SkipRequests => Len(SkipRequests) < start_page - 1]_vars
    /\ [][(pc = "collect" /\ pages_fetched' # pages_fetched /\ next_cursor' = <<>>)
            => pc' = "choose"]_vars

\* Every page named a next cursor: nine requests skipped, five collected
C24_Witness ==
    /\ mode = "highlight" /\ pc = "done"
    /\ start_page = MAX_RANDOM_PAGE_OFFSET
    /\ Len(SkipRequests) = MAX_RANDOM_PAGE_OFFSET - 1
    /\ pages_fetched = MAX_PAGES
    /\ next_cursor # <<>>
    /\ Len(trace) = MAX_RANDOM_PAGE_OFFSET - 1 + MAX_PAGES

\* A skip that failed on its third request: the collection starts from the
\* first page
C24_FallbackWitness ==
    /\ mode = "highlight" /\ pc = "done"
    /\ Len(SkipRequests) = 3
    /\ start_page = 1
    /\ CollectRequests # <<>>
    /\ CollectRequests[1].pageCursor = <<>>

\* The fonts of the trace that were registered
FontsRegistered == SelectSeq(trace, LAMBDA e : e.result = "registered")

\* C25: register_fonts raises, and generate_pdf ends with it before
\* anything is drawn, exactly when none of the four fonts was registered;
\* when at least one was, the failures of the others are passed over, the
\* function returns and generate_pdf goes on to draw.
C25_RaisesIffNoFont ==
    mode = "fonts" =>
        /\ registered_count = Len(FontsRegistered)
        /\ stage = "fonts" => outcome = <<>> /\ canvas = <<>>
        /\ stage # "fonts" =>
             /\ Len(trace) = Len(RegisteredFonts)
             /\ \A i \in 1..Len(trace) : trace[i].font = RegisteredFonts[i]
             /\ (outcome = Raised("RuntimeError", 0)) = (FontsRegistered = <<>>)
             /\ (outcome = ReturnOf(<<>>)) = (FontsRegistered # <<>>)
             /\ (stage = "aborted") = (FontsRegistered = <<>>)
        /\ stage = "aborted" => canvas = <<>> /\ pages = 0 /\ pc = "done"
        /\ canvas # <<>> => FontsRegistered # <<>>

\* No font registered: the run ends with the error and an empty canvas
C25_Witness ==
    /\ mode = "fonts" /\ stage = "aborted"
    /\ Len(trace) = 4
    /\ registered_count = 0
    /\ \E i \in 1..4 : trace[i].result = "FileNotFoundError"
    /\ \E i \in 1..4 : trace[i].result = "TTFError"
    /\ outcome = Raised("RuntimeError", 0)
    /\ canvas = <<>>

\* One font of the four registered: the header is drawn
C25_OneFontWitness ==
    /\ mode = "fonts" /\ stage = "fit"
    /\ registered_count = 1
    /\ canvas # <<>>

\* The days of the walk on which readings were served
Served == SelectSeq(trace, LAMBDA e : e.result # <<>>)

\* C26: walking day by day through one year, the readings served on the
\* first weekday are the entries of index 0 of the three plans and those
\* served on every later weekday are the entries one further on than those
\* of the weekday before; a Saturday or a Sunday is served nothing and uses
\* up no index: no entry is passed over and none is served twice.
C26_OneIndexPerWeekday ==
    mode = "walk" =>
        /\ \A i \in 1..Len(trace) :
             /\ tm_yday(trace[i].date) = i
             /\ (trace[i].result = <<>>) = (weekday(trace[i].date) \in {5, 6})
        /\ \A i \in 1..Len(Served) :
             Served[i].result =
                 << << old_yr1(i - 1), psalms(i - 1), new(i - 1) >> >>
        /\ \A i \in {Len(Served)} \ {0} :
             count_weekdays(Date(Served[i].date.year, 1, 1), Served[i].date)
                 = i - 1

\* A Monday served the entries that follow those of the Friday before it
C26_Witness ==
    /\ mode = "walk" /\ pc = "readings"
    /\ Len(trace) > 7
    /\ weekday(today[1]) = 0
    /\ trace[Len(trace)].result # <<>>
    /\ trace[Len(trace) - 1].result = <<>>
    /\ trace[Len(trace) - 2].result = <<>>
    /\ trace[Len(trace) - 3].result = Served[Len(Served) - 1].result
    /\ trace[Len(trace)].result[1][3] = NewPlan[Len(Served)]
    /\ Len(Served) > 5

\* The last day of a leap year that began on a Wednesday: 262 weekdays
C26_YearEndWitness ==
    /\ mode = "walk" /\ pc = "readings"
    /\ today = << Date(2020, 12, 31) >>
    /\ Len(trace) = 366
    /\ Len(Served) = 262

\* What the returned bundle measures
ReturnedTotal == _measure_news_height(NewsValue(ret), content_width).total

\* Every strategy was used up: each applicable shortening attempted, no
\* headline left, the third story's summary within the character budget
Exhausted ==
    /\ ShortenCalls = ExpectedCalls
    /\ NewsValue(ret).headlines = <<>>
    /\ NewsValue(ret).third_story # <<>> =>
           Len(NewsValue(ret).third_story[1].summary) <= TruncateBudget

\* C27: on every return from fit_news_to_space for a bundle with at least
\* one story, the returned bundle measures within available_height or the
\* algorithm is exhausted: every applicable shortening was attempted, the
\* returned headlines are empty and the third story's summary, if there is
\* a third story, is at most 200 characters long.
C27_FitsOrExhausted ==
    (Returned /\ HasStory(input0)) =>
        (ReturnedTotal <= available_height \/ Exhausted)

\* A return that overflows a budget that is not zero, everything tried
C27_Witness ==
    /\ Returned /\ HasStory(input0)
    /\ available_height > 0
    /\ ReturnedTotal > available_height
    /\ Exhausted
    /\ input0.headlines # <<>>
    /\ input0.third_story # <<>>
    /\ Len(input0.third_story[1].summary) > TruncateBudget

\* A return that fits with strategies left untried
C27_FitsWitness ==
    /\ Returned /\ HasStory(input0)
    /\ ReturnedTotal <= available_height
    /\ ~Exhausted
    /\ log # <<>>

\* The step that calls the shortening capability, and the place among the
\* top stories of the story it names (0 for the third story)
ShortenStep ==
    /\ mode = "fit"
    /\ Len(log') = Len(log) + 1
    /\ log'[Len(log')].op = "shorten"

TopPlace(story) == IF story = "top_0" THEN 1 ELSE IF story = "top_1" THEN 2 ELSE 0

\* C28: in one run of fit_news_to_space the shortening capability is called
\* at most three times, at most once for each of the third story, the
\* second top story and the first top story; a call changes no story but
\* the one it was made for, so no story is shortened twice and a top story
\* beyond the second is never passed to it.
C28_EachStoryShortenedOnce ==
    /\ [](mode = "fit" =>
            /\ Len(ShortenCalls) <= 3
            /\ \A i \in 1..Len(ShortenCalls) :
                 /\ ShortenCalls[i][1] \in {"third", "top_1", "top_0"}
                 /\ \A j \in 1..Len(ShortenCalls) :
                      ShortenCalls[i][1] = ShortenCalls[j][1] => i = j)
    /\ [][ShortenStep =>
            LET story == log'[Len(log')].story
                before == NewsValue(adjusted)
                after == NewsValue(adjusted)'
            IN /\ after.headlines = before.headlines
               /\ Len(after.top_stories) = Len(before.top_stories)
               /\ \A k \in 1..Len(before.top_stories) :
                    /\ after.top_stories[k].headline = before.top_stories[k].headline
                    /\ k # TopPlace(story) =>
                         after.top_stories[k] = before.top_stories[k]
               /\ story # "third" => after.third_story = before.third_story
               /\ TopPlace(story) <= Len(before.top_stories)]_vars

\* A bundle of three top stories and a third story: three calls, each of
\* which returned a text, and the third top story as it came in
C28_Witness ==
    /\ Returned
    /\ Len(input0.top_stories) = 3
    /\ Len(ShortenCalls) = 3
    /\ \A i \in 1..Len(log) : log[i].op = "shorten" => log[i].got = "text"
    /\ NewsValue(ret).top_stories[3] = input0.top_stories[3]
    /\ NewsValue(ret).top_stories[1] # input0.top_stories[1]
    /\ NewsValue(ret).top_stories[2] # input0.top_stories[2]

\* The lines draw_text paints for a text: one, or one for each wrapped line
LinesOf(t, font, size, maxw) ==
    IF maxw # 0 /\ stringWidth(t, font, size) > maxw
    THEN Len(simpleSplit(t, font, size, maxw)) ELSE 1

\* The lines the news section holds when nothing of the bundle n is left
\* out: the heading; the headline and the summary of each top story; those
\* of the third story; "IN BRIEF" and a bullet and the lines of each headline
WholeNewsLines(n, cw) ==
    LET col_width == (cw - 8 * mm) \div 2
    IN 1
       + SumSeq([i \in 1..Len(n.top_stories) |->
                   LinesOf(n.top_stories[i].headline, FONTS.semibold, 11, cw)
                   + LinesOf(n.top_stories[i].summary, FONTS.medium, 8, cw)])
       + (IF n.third_story = <<>> THEN 0
          ELSE LinesOf(n.third_story[1].headline, FONTS.semibold, 10, col_width)
               + LinesOf(n.third_story[1].summary, FONTS.medium, 8, col_width))
       + (IF n.headlines = <<>> THEN 0
          ELSE 1 + SumSeq([i \in 1..Len(n.headlines) |->
                             1 + LinesOf(n.headlines[i], FONTS.medium, 8,
                                         col_width - 3 * mm)]))

\* Every story of the bundle has a headline, every headline a text, and
\* there is something in the bundle
AllHeadlined(n) ==
    /\ \A i \in 1..Len(n.top_stories) : n.top_stories[i].headline # <<>>
    /\ n.third_story # <<>> => n.third_story[1].headline # <<>>
    /\ \A i \in 1..Len(n.headlines) : n.headlines[i] # <<>>
    /\ (n.top_stories # <<>> \/ n.third_story # <<>> \/ n.headlines # <<>>)

\* C29: whenever the bundle fit_news_to_space returned measures within
\* news_available_height and every story has a headline, generate_pdf
\* paints every element of it (no top story, third story or headline is
\* left out by a position guard), and no line of it lower than the 1 cm
\* safety margin above inspiration_top.
C29_FittedBundleWhollyRendered ==
    [][(/\ NewsStep
        /\ AllHeadlined(NewsValue(ret))
        /\ ReturnedTotal <= available_height) =>
         /\ Len(canvas') - Len(canvas) = WholeNewsLines(NewsValue(ret), content_width)
         /\ \A i \in (Len(canvas) + 1)..Len(canvas') :
              canvas'[i].y >= inspiration_top + 1 * cm]_vars

\* The second top story of the bundle that fills the page, painted less
\* than 4 cm above the quotation zone
C29_Witness ==
    /\ stage = "inspiration"
    /\ input0 = TightBundle
    /\ NewsValue(ret) = TightBundle
    /\ ReturnedTotal <= available_height
    /\ \E i \in 1..Len(canvas) :
         /\ canvas[i].text = TightBundle.top_stories[2].headline
         /\ canvas[i].y < inspiration_top + 4 * cm
         /\ canvas[i].y >= inspiration_top + 3 * cm

\* A bundle that came within the page by the drop of a headline, its last
\* headline painted
C29_DropWitness ==
    /\ stage = "inspiration"
    /\ input0 = DropBundle
    /\ Len(NewsValue(ret).headlines) = DropHeadlines - 1
    /\ ReturnedTotal <= available_height
    /\ Len(SelectSeq(canvas, LAMBDA p : p.text = H1)) = DropHeadlines - 1

\* The step that drops a headline
DropStep ==
    /\ mode = "fit"
    /\ Len(log') = Len(log) + 1
    /\ log'[Len(log')].op = "drop"

============================================================================
